---- MODULE Spec2Model ----
(***************************************************************************)
(* QuizAI: the question generator (get_quiz.py), the quiz session engine   *)
(* (main.py), the chunker (create_context_from_PDF.py) and the index      *)
(* cache, the retriever and the topic resolver of the PDF chat             *)
(* (chat_with_PDF.py) as state machines.                                   *)
(*                                                                         *)
(* Texts are sequences of one-character strings over a small alphabet      *)
(* ("t"/"T" stands for an excluded subtopic word, " " is whitespace).      *)
(***************************************************************************)
EXTENDS Integers, Sequences, FiniteSets, TLC

VARIABLES
    stems,                  \* _RECENT_QUESTION_STEMS: topic -> deque(maxlen=15)
    accepted,               \* history: topic -> every question text accepted so far
    call,                   \* the last get_quiz_from_topic call: its inputs and outcome
    api_key,                \* main.py: api_key = os.getenv("OPENAI_API_KEY")
    questions,              \* st.session_state.questions
    answers,                \* st.session_state.answers (index -> option index, -1 skipped)
    current_question,       \* st.session_state.current_question
    right_answers,          \* st.session_state.right_answers
    wrong_answers,          \* st.session_state.wrong_answers
    quiz_complete,          \* st.session_state.quiz_complete
    quiz_data,              \* st.session_state.quiz_data
    max_questions_override, \* st.session_state.max_questions_override
    op,                     \* the last user action and how its fetch ended
    ck,                     \* the chunk_text call in progress: its locals and position
    rt,                     \* the last _retrieve_top_chunks call: its inputs and result
    files,                  \* PDF_FOLDER: filename -> whether it exists, its mtime and text
    pdf_chat_indexes,       \* st.session_state.pdf_chat_indexes: (filename, mtime) -> index
    bd,                     \* the last _build_index_for_pdf call: its inputs and result
    built,                  \* filename -> the latest build that found the file
    rs,                     \* the last _resolve_pdf_for_topic call: its inputs and result
    fl                      \* the last _filter_chunks call: its inputs and result

genVars == <<stems, accepted, call>>
sessionVars == <<questions, answers, current_question, right_answers, wrong_answers,
                 quiz_complete, quiz_data, max_questions_override, op>>
indexVars == <<files, pdf_chat_indexes, bd, built>>
toolVars == <<rs, fl>>
chatVars == <<indexVars, toolVars>>
pdfVars == <<ck, rt, chatVars>>
vars == <<stems, accepted, call, api_key, questions, answers, current_question,
          right_answers, wrong_answers, quiz_complete, quiz_data,
          max_questions_override, op, ck, rt, files, pdf_chat_indexes, bd, built,
          rs, fl>>

----------------------------------------------------------------------------
(* Bounds of the model *)

\* get_quiz_from_topic calls made by the generator harness
MaxCalls == 2
\* accepted generations followed by the stems harness (16 fill the deque and evict one)
MaxAccepted == 17
\* of these, the generations whose question text is the second text
MaxAltStems == 2

\* questions in the database that "Load 10 Random Questions" samples from
MaxBatch == 2
\* "Start Quiz" / "Load Random" clicks followed
MaxStarts == 2
\* "Submit" clicks and fetches that end without a question, followed in all
MaxDetours == 2

\* characters of the longest text handed to chunk_text (besides the 2500-character one)
MaxTextLen == 4
\* the largest chunk_size tried with these texts
MaxChunkSize == 3
\* the largest overlap tried with these texts
MaxOverlap == 3
\* loop iterations of chunk_text followed (a valid call needs at most the text's length)
MaxIterations == 6
\* chunks of the largest index handed to _retrieve_top_chunks
MaxIndexChunks == 3

(* Program constants *)

\* deque(maxlen=15)
STEMS_MAXLEN == 15
\* get_quiz_from_topic(..., max_retries: int = 2)
DEFAULT_MAX_RETRIES == 2
\* main.py: MAX_QUESTIONS = 10
MAX_QUESTIONS == 10
\* create_context_from_PDF.py: CHUNK_SIZE = 1000
CHUNK_SIZE == 1000
\* create_context_from_PDF.py: OVERLAP = 200
OVERLAP == 200
\* _retrieve_top_chunks(index, question, k: int = 4)
DEFAULT_K == 4

\* chat_with_PDF.py, _build_index_for_pdf: batch_size = 96
BATCH_SIZE == 96

\* the latest modification time a file of the folder reaches
MaxMtime == 2

\* the longest list of PDF files
MaxFiles == 3

\* the longest list of chunks given to _filter_chunks
MaxFilterChunks == 3

----------------------------------------------------------------------------
(* Python string and list primitives *)

\* str.lower(), one character
LowerChar(c) ==
    CASE c = "T" -> "t" [] c = "X" -> "x" [] c = "A" -> "a" [] c = "B" -> "b"
      [] c = "P" -> "p" [] c = "D" -> "d" [] c = "F" -> "f" [] OTHER -> c

\* str.lower()
Lower(s) == [i \in 1..Len(s) |-> LowerChar(s[i])]

RECURSIVE LStrip(_)
LStrip(s) == IF s # <<>> /\ Head(s) = " " THEN LStrip(Tail(s)) ELSE s

RECURSIVE RStrip(_)
RStrip(s) ==
    IF s # <<>> /\ s[Len(s)] = " " THEN RStrip(SubSeq(s, 1, Len(s) - 1)) ELSE s

\* str.strip()
Strip(s) == RStrip(LStrip(s))

\* t in s  (substring test; the empty string is in every string)
Contains(t, s) ==
    \E i \in 0..(Len(s) - Len(t)) : SubSeq(s, i + 1, i + Len(t)) = t

\* a slice index i of a list of n entries: negative counts from the end, then clipped
SliceIndex(i, n) ==
    IF i < 0 THEN (IF i + n < 0 THEN 0 ELSE i + n) ELSE (IF i > n THEN n ELSE i)

\* list[a:b]
Slice(list, a, b) ==
    SubSeq(list, SliceIndex(a, Len(list)) + 1, SliceIndex(b, Len(list)))

\* min(a, b)
Min(a, b) == IF a < b THEN a ELSE b

\* x in list
InList(x, list) == \E i \in 1..Len(list) : list[i] = x

RECURSIVE JoinSpace(_)
\* " ".join(list)
JoinSpace(list) ==
    IF list = <<>> THEN <<>>
    ELSE IF Len(list) = 1 THEN list[1]
    ELSE list[1] \o <<" ">> \o JoinSpace(Tail(list))

\* the permutations of 1..n, as sequences
Perms(n) == {p \in [1..n -> 1..n] : \A i, j \in 1..n : p[i] = p[j] => i = j}

\* list reordered by permutation p
Permute(list, p) == [i \in 1..Len(list) |-> list[p[i]]]

----------------------------------------------------------------------------
(* get_quiz.py *)

\* any(t in low for t in terms)
AnyTermIn(terms, low) == \E i \in 1..Len(terms) : Contains(terms[i], low)

RECURSIVE DropMatchingCaseSensitive(_, _)
\* variant: the chunk is compared as written, not lowercased
DropMatchingCaseSensitive(chunks, lows) ==
    IF chunks = <<>> THEN <<>>
    ELSE IF AnyTermIn(lows, Head(chunks))
         THEN DropMatchingCaseSensitive(Tail(chunks), lows)
    ELSE <<Head(chunks)>> \o DropMatchingCaseSensitive(Tail(chunks), lows)

RECURSIVE DropMatching(_, _)
\* [c for c in chunks if not any(t in c.lower() for t in lows)]
DropMatching(chunks, lows) ==
    IF chunks = <<>> THEN <<>>
    ELSE IF AnyTermIn(lows, Lower(Head(chunks))) THEN DropMatching(Tail(chunks), lows)
    ELSE <<Head(chunks)>> \o DropMatching(Tail(chunks), lows)

\* variant: the terms are compared as written, not lowercased
TermsAsWritten(exclude_terms) == exclude_terms

\* lows = [t.lower() for t in exclude_terms]
LowerTerms(exclude_terms) == [i \in 1..Len(exclude_terms) |-> Lower(exclude_terms[i])]

\* _filter_chunks
filter_chunks(chunks, exclude_terms) ==
    IF exclude_terms = <<>> THEN chunks
    ELSE DropMatching(chunks, LowerTerms(exclude_terms))

\* variant: the text is searched as written, not lowercased
ViolatesExclusionsCaseSensitive(text, exclude_terms) ==
    IF exclude_terms = <<>> THEN FALSE
    ELSE AnyTermIn(exclude_terms, text)

\* _violates_exclusions
violates_exclusions(text, exclude_terms) ==
    IF exclude_terms = <<>> THEN FALSE
    ELSE AnyTermIn(exclude_terms, Lower(text))

\* exclude_terms = [t.strip().lower() for t in (exclude_terms or [])]
NormalizeTerms(exclude_terms) ==
    [i \in 1..Len(exclude_terms) |-> Lower(Strip(exclude_terms[i]))]

\* haystack = " ".join([quiz.question] + quiz.options + [quiz.explanation])
Haystack(quiz) == JoinSpace(<<quiz.question>> \o quiz.options \o <<quiz.explanation>>)

\* QuizQuestion (pydantic): question: str, options: List[str], answer: str, explanation: str
Quiz(q, opts, a, e) == [question |-> q, options |-> opts, answer |-> a, explanation |-> e]

\* no question (None)
NoQuiz == Quiz(<<>>, <<>>, <<>>, <<>>)

(* What one attempt's request to the model can produce:                    *)
(*   "api_error"   client.chat.completions.create raised                   *)
(*   "parse_error" QuizQuestion.parse_raw raised (malformed JSON, schema)  *)
(*   "quiz"        the content parsed into a QuizQuestion                  *)
Response(kind, quiz) == [kind |-> kind, quiz |-> quiz]

KeyValid == "valid"
\* OPENAI_API_KEY set but empty or not accepted: every request is refused
KeyInvalid == "invalid"
\* OPENAI_API_KEY not set: os.getenv returns None
KeyNone == "none"

\* OpenAI(api_key=api_key): the SDK's constructor raises when it has no key
ClientConstructorRaises(key) == key = KeyNone

\* variant: the deque evicts one entry too late
DequeAppendOffByOne(d, x) ==
    IF Len(d) > STEMS_MAXLEN THEN Tail(d) \o <<x>> ELSE Append(d, x)

\* deque(maxlen=15).append(x)
DequeAppend(d, x) ==
    IF Len(d) >= STEMS_MAXLEN THEN Tail(d) \o <<x>> ELSE Append(d, x)

(* One pass of the loop body, lines 116-146: "exception" is caught by      *)
(* `except Exception`, "excluded" is the `continue`, "accepted" returns.   *)
AttemptOutcome(resp, terms) ==
    IF resp.kind = "api_error" THEN "exception"
    ELSE IF resp.kind = "parse_error" THEN "exception"
    ELSE IF violates_exclusions(Haystack(resp.quiz), terms) THEN "excluded"
    ELSE IF ~ InList(resp.quiz.answer, resp.quiz.options) THEN "exception"
    ELSE "accepted"

RECURSIVE AttemptLoopKeepsGoing(_, _, _, _)
\* variant: an accepted attempt does not end the loop; the last accepted one wins
AttemptLoopKeepsGoing(attempt, max_retries, responses, terms) ==
    IF attempt >= max_retries THEN [accepted |-> 0, invocations |-> attempt]
    ELSE LET rest == AttemptLoopKeepsGoing(attempt + 1, max_retries, responses, terms)
         IN  IF rest.accepted = 0
                /\ AttemptOutcome(responses[attempt + 1], terms) = "accepted"
             THEN [accepted |-> attempt + 1, invocations |-> rest.invocations]
             ELSE rest

RECURSIVE AttemptLoopStopsOnException(_, _, _, _)
\* variant: an exception in an attempt ends the loop
AttemptLoopStopsOnException(attempt, max_retries, responses, terms) ==
    IF attempt >= max_retries THEN [accepted |-> 0, invocations |-> attempt]
    ELSE IF AttemptOutcome(responses[attempt + 1], terms) = "accepted"
         THEN [accepted |-> attempt + 1, invocations |-> attempt + 1]
    ELSE IF AttemptOutcome(responses[attempt + 1], terms) = "exception"
         THEN [accepted |-> 0, invocations |-> attempt + 1]
    ELSE AttemptLoopStopsOnException(attempt + 1, max_retries, responses, terms)

RECURSIVE AttemptLoop(_, _, _, _)
(* for attempt in range(max_retries): the number of the accepted attempt   *)
(* (0: none) and the number of requests made to the model.                 *)
AttemptLoop(attempt, max_retries, responses, terms) ==
    IF attempt >= max_retries THEN [accepted |-> 0, invocations |-> attempt]
    ELSE IF AttemptOutcome(responses[attempt + 1], terms) = "accepted"
         THEN [accepted |-> attempt + 1, invocations |-> attempt + 1]
    ELSE AttemptLoop(attempt + 1, max_retries, responses, terms)

\* variant: the options are drawn with replacement, the last one like the first
ShuffleOptionsWithRepeats(quiz, perm) ==
    [quiz EXCEPT !.options = [i \in 1..Len(quiz.options) |->
                                 quiz.options[perm[IF i = Len(quiz.options) THEN 1 ELSE i]]]]

(* opts = quiz.options[:]; random.shuffle(opts); quiz.options = opts       *)
ShuffleOptions(quiz, perm) == [quiz EXCEPT !.options = Permute(quiz.options, perm)]

\* _RECENT_QUESTION_STEMS[topic].append(quiz.question.strip())
RecordStem(memory, topic, quiz) ==
    [memory EXCEPT ![topic] = DequeAppend(memory[topic], Strip(quiz.question))]

\* variant: the stems of every topic are listed
RecentStemsOfAllTopics(memory, topic) == memory["A"] \o memory["B"]

\* recent_stems = list(_RECENT_QUESTION_STEMS[topic]), listed in every attempt's prompt
recent_stems(memory, topic) == memory[topic]

(* variant: the stem is appended as soon as a response has parsed, before  *)
(* the exclusion and answer checks                                         *)
GetQuizRecordsStemEarly(topic, key, context_chunks, exclude_terms, max_retries, responses, perm) ==
    LET terms == NormalizeTerms(exclude_terms)
        usable_chunks == filter_chunks(context_chunks, terms)
        nothing == [outcome |-> "none", quiz |-> NoQuiz, invocations |-> 0,
                    stems |-> stems, recent_stems |-> <<>>]
    IN  IF usable_chunks = <<>> THEN nothing
        ELSE IF ClientConstructorRaises(key)
             THEN [nothing EXCEPT !.outcome = "raised"]
        ELSE LET loop == AttemptLoop(0, max_retries, responses, terms)
                 last == IF loop.invocations = 0 THEN NoQuiz
                         ELSE responses[loop.invocations].quiz
                 parsed == loop.invocations > 0
                           /\ responses[loop.invocations].kind = "quiz"
                 memory == IF parsed THEN RecordStem(stems, topic, last) ELSE stems
             IN  IF loop.accepted = 0
                 THEN [nothing EXCEPT !.invocations = loop.invocations,
                                      !.stems = memory]
                 ELSE [outcome |-> "question", quiz |-> ShuffleOptions(last, perm),
                       invocations |-> loop.invocations, stems |-> memory,
                       recent_stems |-> stems[topic]]

(* get_quiz_from_topic. responses[k] is what the model produces at the     *)
(* k-th request, perm the outcome of random.shuffle. The result names the  *)
(* outcome ("question", "none" for None, "raised" for an exception that    *)
(* leaves the function), the requests made and the memory afterwards.      *)
get_quiz_from_topic(topic, key, context_chunks, exclude_terms, max_retries, responses, perm) ==
    LET terms == NormalizeTerms(exclude_terms)
        usable_chunks == filter_chunks(context_chunks, terms)
        nothing == [outcome |-> "none", quiz |-> NoQuiz, invocations |-> 0,
                    stems |-> stems, recent_stems |-> <<>>]
    IN  IF usable_chunks = <<>> THEN nothing
        ELSE IF ClientConstructorRaises(key)
             THEN [nothing EXCEPT !.outcome = "raised"]
        ELSE LET loop == AttemptLoop(0, max_retries, responses, terms)
                 listed == recent_stems(stems, topic)
             IN  IF loop.accepted = 0
                 THEN [nothing EXCEPT !.invocations = loop.invocations,
                                      !.recent_stems = listed]
                 ELSE LET quiz == ShuffleOptions(responses[loop.accepted].quiz, perm)
                      IN  [outcome |-> "question", quiz |-> quiz,
                           invocations |-> loop.invocations,
                           stems |-> RecordStem(stems, topic, quiz),
                           recent_stems |-> listed]

\* the permutations random.shuffle can produce for this call
ShuffleChoices(exclude_terms, max_retries, responses) ==
    LET loop == AttemptLoop(0, max_retries, responses, NormalizeTerms(exclude_terms))
    IN  IF loop.accepted = 0 THEN {<<>>}
        ELSE Perms(Len(responses[loop.accepted].quiz.options))

----------------------------------------------------------------------------
(* The inputs the calls are drawn from *)

Topics == {"A", "B"}
Keys == {KeyValid, KeyInvalid, KeyNone}

OptA == <<"a">>
OptB == <<"b">>
OptC == <<"c">>
OptD == <<"d">>
QText1 == <<"x">>
\* a question text with surrounding whitespace
QText2 == <<" ", "y", " ">>
Expl == <<"e">>

ApiError == Response("api_error", NoQuiz)
ParseError == Response("parse_error", NoQuiz)
Good1 == Response("quiz", Quiz(QText1, <<OptA, OptB, OptC, OptD>>, OptA, Expl))
Good2 == Response("quiz", Quiz(QText2, <<OptA, OptB, OptC, OptD>>, OptB, Expl))
\* an option mentions the excluded subtopic, in upper case
Leaky == Response("quiz", Quiz(QText1, <<OptA, <<"T">>, OptC, OptD>>, OptA, Expl))
\* the answer is none of the options
WrongAnswer == Response("quiz", Quiz(QText1, <<OptA, OptB, OptC, OptD>>, <<"z">>, Expl))
\* three options only
ThreeOptions == Response("quiz", Quiz(QText1, <<OptA, OptB, OptC>>, OptA, Expl))
\* the answer is given twice among the options
DupOptions == Response("quiz", Quiz(QText1, <<OptA, OptA, OptC, OptD>>, OptA, Expl))

Responses == {ApiError, ParseError, Good1, Good2, Leaky, WrongAnswer, ThreeOptions,
              DupOptions}

ChunkClean == <<"x", "y">>
ChunkLeaky == <<"T", "x">>
ChunkLists == {<<>>, <<ChunkLeaky>>, <<ChunkLeaky, ChunkClean>>}

\* the caller's exclude_terms: none, one needing strip() and lower(), a two-word term
TermLists == {<<>>, << <<" ", "T", " ">> >>, << <<"c", " ", "a">> >>}

\* what the model can answer under this key
ResponseSeqs(key, max_retries) ==
    IF key = KeyValid THEN [1..max_retries -> Responses]
    ELSE [1..max_retries -> {ApiError}]

NoStems == [t \in Topics |-> <<>>]

\* no call in progress or returned
Idle(n) == [n |-> n, topic |-> "", api_key |-> "", context_chunks |-> <<>>,
            exclude_terms |-> <<>>, max_retries |-> 0, responses |-> <<>>,
            stems_before |-> NoStems, outcome |-> "idle", quiz |-> NoQuiz,
            invocations |-> 0, recent_stems |-> <<>>]

(* One call of get_quiz_from_topic: the memory is updated and the call is  *)
(* recorded with the responses the model actually gave.                    *)
DoCall(topic, key, context_chunks, exclude_terms, max_retries, responses, perm) ==
    LET r == get_quiz_from_topic(topic, key, context_chunks, exclude_terms,
                                 max_retries, responses, perm)
    IN  /\ stems' = r.stems
        /\ accepted' = IF r.outcome = "question"
                       THEN [accepted EXCEPT ![topic] = Append(@, r.quiz.question)]
                       ELSE accepted
        /\ call' = [n |-> call.n + 1, topic |-> topic, api_key |-> key,
                    context_chunks |-> context_chunks, exclude_terms |-> exclude_terms,
                    max_retries |-> max_retries,
                    responses |-> SubSeq(responses, 1, r.invocations),
                    stems_before |-> stems, outcome |-> r.outcome, quiz |-> r.quiz,
                    invocations |-> r.invocations, recent_stems |-> r.recent_stems]

\* a caller calls get_quiz_from_topic
GenCall ==
    /\ call.outcome = "idle"
    /\ call.n < MaxCalls
    /\ \E topic \in Topics, key \in Keys, chunks \in ChunkLists, terms \in TermLists,
          max_retries \in 0..DEFAULT_MAX_RETRIES :
         \E responses \in ResponseSeqs(key, max_retries) :
           \E perm \in ShuffleChoices(terms, max_retries, responses) :
             DoCall(topic, key, chunks, terms, max_retries, responses, perm)
    /\ UNCHANGED <<api_key, sessionVars, pdfVars>>

\* the caller has taken the result
GenReturn ==
    /\ call.outcome # "idle"
    /\ call' = Idle(call.n)
    /\ UNCHANGED <<stems, accepted, api_key, sessionVars, pdfVars>>

\* the number of entries of list equal to x
RECURSIVE CountOf(_, _)
CountOf(x, list) ==
    IF list = <<>> THEN 0
    ELSE (IF Head(list) = x THEN 1 ELSE 0) + CountOf(x, Tail(list))

(* Repeated generations for the stems memory: the model answers with one   *)
(* of two question texts or malformed content, the options keep the order. *)
StemsCall ==
    /\ Len(accepted["A"]) + Len(accepted["B"]) < MaxAccepted
    /\ \E topic \in Topics :
         \E responses \in [1..DEFAULT_MAX_RETRIES -> {ParseError, Good1, Good2}] :
           LET alts == CountOf(QText2, accepted["A"]) + CountOf(QText2, accepted["B"])
               r == get_quiz_from_topic(topic, KeyValid, <<ChunkClean>>, <<>>,
                                        DEFAULT_MAX_RETRIES, responses, <<1, 2, 3, 4>>)
           IN  /\ (r.outcome = "question" /\ r.quiz.question = QText2)
                      => alts < MaxAltStems
               /\ stems' = r.stems
               /\ accepted' = IF r.outcome = "question"
                              THEN [accepted EXCEPT ![topic] = Append(@, r.quiz.question)]
                              ELSE accepted
    /\ UNCHANGED <<call, api_key, sessionVars, pdfVars>>

----------------------------------------------------------------------------
(* main.py: the session engine. A question of the session is the quiz dict *)
(* plus the keys next_question adds to it (user_answer, is_correct).       *)

NotScored == <<"?">>
Skipped == <<"S", "k", "i", "p", "p", "e", "d">>

\* the dict returned by quiz.dict(), before next_question has scored it
AsQuestion(quiz) ==
    [question |-> quiz.question, options |-> quiz.options, answer |-> quiz.answer,
     explanation |-> quiz.explanation, user_answer |-> NotScored, is_correct |-> FALSE]

\* EXCLUDED_TERMS: "turtle graphics", "turtle", "turtle module", "turtle.forward", ...
EXCLUDED_TERMS == << <<"t", " ", "g">>, <<"t">>, <<"t", " ", "m">>, <<"t", ".", "f">> >>

\* the topics of the sidebar: "A" has a PDF with text, "B" has none
SessionTopics == {"A", "B"}

\* topic_contexts.get(topic, [])
TopicContext(topic) == IF topic = "A" THEN <<ChunkLeaky, ChunkClean>> ELSE <<>>

\* what the model answers during a session
SessionResponses == {ParseError, Good1}

(* a document of the quiz_questions collection; the answer of every second *)
(* document is the option whose text is "Skipped"                          *)
DbDoc(k) ==
    AsQuestion(Quiz([i \in 1..k |-> "x"],
                    IF k % 2 = 1 THEN <<OptA, OptB, OptC, OptD>>
                    ELSE <<OptA, Skipped, OptC, OptD>>,
                    IF k % 2 = 1 THEN OptA ELSE Skipped, Expl))

\* get_random_quiz_questions(10) over a database of size documents
RandomBatch(size) == [k \in 1..(IF size < 10 THEN size ELSE 10) |-> DbDoc(k)]

\* st.session_state
Session ==
    [questions |-> questions, answers |-> answers,
     current_question |-> current_question, right_answers |-> right_answers,
     wrong_answers |-> wrong_answers, quiz_complete |-> quiz_complete,
     quiz_data |-> quiz_data, max_questions_override |-> max_questions_override]

\* answers[i] = v
SetAnswer(ans, i, v) ==
    [j \in (DOMAIN ans) \cup {i} |-> IF j = i THEN v ELSE ans[j]]

\* list.index(x): the first position (from 0) of x
IndexOf(list, x) == (CHOOSE i \in 1..Len(list) :
                        list[i] = x /\ \A j \in 1..(i - 1) : list[j] # x) - 1

\* variant: skipped questions are left out of the recount
UpdateScoreIgnoresSkips(S) ==
    LET answered(i) == i \in DOMAIN S.answers
        chosen(i) == S.questions[i + 1].options[S.answers[i] + 1]
        idx == 0..(Len(S.questions) - 1)
        right == {i \in idx : answered(i) /\ S.answers[i] # -1
                              /\ chosen(i) = S.questions[i + 1].answer}
        wrong == {i \in idx : answered(i) /\ S.answers[i] # -1
                              /\ chosen(i) # S.questions[i + 1].answer}
    IN  [S EXCEPT !.right_answers = Cardinality(right),
                  !.wrong_answers = Cardinality(wrong)]

\* update_score
update_score(S) ==
    LET answered(i) == i \in DOMAIN S.answers
        chosen(i) == S.questions[i + 1].options[S.answers[i] + 1]
        idx == 0..(Len(S.questions) - 1)
        right == {i \in idx : answered(i) /\ S.answers[i] # -1
                              /\ chosen(i) = S.questions[i + 1].answer}
        wrong == {i \in idx : answered(i) /\ S.answers[i] # -1
                              /\ chosen(i) # S.questions[i + 1].answer}
        skipped == {i \in idx : answered(i) /\ S.answers[i] = -1}
    IN  [S EXCEPT !.right_answers = Cardinality(right),
                  !.wrong_answers = Cardinality(wrong) + Cardinality(skipped)]

\* lines 367-368: every script run recomputes the score of a quiz in progress
RunUpdateScore(S) ==
    IF S.questions # <<>> /\ ~ S.quiz_complete THEN update_score(S) ELSE S

\* variant: the reset leaves quiz_data and the counters of the last session
ResetSessionKeepsData(S) ==
    [S EXCEPT !.questions = <<>>, !.answers = <<>>, !.current_question = 0,
              !.quiz_complete = FALSE]

\* start_quiz, lines 58-66: the reset
ResetSession(S) ==
    [S EXCEPT !.questions = <<>>, !.answers = <<>>, !.current_question = 0,
              !.right_answers = 0, !.wrong_answers = 0, !.quiz_complete = FALSE,
              !.quiz_data = <<>>]

\* start_quiz(load_random=False); r is the result of get_quiz_from_topic
start_quiz_topic(S, r) ==
    LET S1 == ResetSession(S)
    IN  IF r.outcome = "question"
        THEN [S1 EXCEPT !.questions = Append(@, AsQuestion(r.quiz))]
        ELSE S1

\* start_quiz(load_random=True)
start_quiz_random(S, batch) ==
    [ResetSession(S) EXCEPT !.questions = batch, !.max_questions_override = Len(batch)]

\* variant: next_question marks the question skipped whether answered or not
MarkSkippedAlways(S) ==
    LET i == S.current_question
    IN  [S EXCEPT !.wrong_answers = @ + 1, !.answers = SetAnswer(@, i, -1)]

\* lines 169-171: an unanswered question is marked skipped
MarkSkipped(S) ==
    LET i == S.current_question
    IN  IF i \notin DOMAIN S.answers
        THEN [S EXCEPT !.wrong_answers = @ + 1, !.answers = SetAnswer(@, i, -1)]
        ELSE S

\* lines 173-176: the current question is scored and appended to quiz_data
ScoreCurrent(S) ==
    LET i == S.current_question
        q == S.questions[i + 1]
        user_answer == IF S.answers[i] # -1 THEN q.options[S.answers[i] + 1]
                       ELSE Skipped
        scored == [q EXCEPT !.user_answer = user_answer,
                            !.is_correct = (user_answer = q.answer)]
    IN  [S EXCEPT !.questions[i + 1] = scored, !.quiz_data = Append(@, scored)]

\* variant: a failed fetch does not take the index back
AfterFetchNoRollback(S, r) ==
    IF r.outcome = "question"
    THEN [S EXCEPT !.questions = Append(@, AsQuestion(r.quiz))]
    ELSE S

\* lines 194-200: what the fetch of the next question leaves behind
AfterFetch(S, r) ==
    IF r.outcome = "question"
    THEN [S EXCEPT !.questions = Append(@, AsQuestion(r.quiz))]
    ELSE IF r.outcome = "none"
    THEN [S EXCEPT !.current_question = @ - 1]
    ELSE S

\* variant: the session ends one question after the limit
LimitReachedLate(i, max_q) == i + 1 > max_q

\* line 180: if i + 1 >= max_q
LimitReached(i, max_q) == i + 1 >= max_q

\* whether next_question gets as far as asking for a new question
NeedsFetch(S) ==
    /\ S.current_question < Len(S.questions)
    /\ ~ LimitReached(S.current_question, S.max_questions_override)
    /\ S.current_question + 1 >= Len(S.questions)

(* next_question; r is the result of get_quiz_from_topic when it is asked. *)
(* With current_question past the list, questions[i] raises IndexError     *)
(* after the skip has been recorded.                                       *)
next_question(S, r) ==
    LET S1 == MarkSkipped(S)
    IN  IF S.current_question >= Len(S.questions) THEN S1
        ELSE LET S2 == ScoreCurrent(S1)
                 max_q == S2.max_questions_override
             IN  IF LimitReached(S2.current_question, max_q)
                 THEN [S2 EXCEPT !.quiz_complete = TRUE]
                 ELSE LET S3 == [S2 EXCEPT !.current_question = @ + 1]
                      IN  IF S3.current_question >= Len(S3.questions)
                          THEN AfterFetch(S3, r)
                          ELSE S3

\* display_question, lines 144-147: Submit records the index of the chosen option
submit_answer(S, pos) ==
    LET i == S.current_question
        options_to_display == S.questions[i + 1].options
    IN  [S EXCEPT !.answers = SetAnswer(@, i, IndexOf(options_to_display,
                                                      options_to_display[pos + 1]))]

\* the shuffle outcomes followed in a session
SessionShuffles == {<<2, 1, 3, 4>>}

\* the option positions the user clicks
SubmitChoices == {0, 1}

\* the session state after a script run
ApplySession(S) ==
    /\ questions' = S.questions
    /\ answers' = S.answers
    /\ current_question' = S.current_question
    /\ right_answers' = S.right_answers
    /\ wrong_answers' = S.wrong_answers
    /\ quiz_complete' = S.quiz_complete
    /\ quiz_data' = S.quiz_data
    /\ max_questions_override' = S.max_questions_override

\* the memory after a handler's call of get_quiz_from_topic
ApplyCall(topic, r) ==
    /\ stems' = r.stems
    /\ accepted' = IF r.outcome = "question"
                   THEN [accepted EXCEPT ![topic] = Append(@, r.quiz.question)]
                   ELSE accepted

\* get_quiz_from_topic(topic, api_key, topic_contexts.get(topic, []), exclude_terms=EXCLUDED_TERMS)
SessionFetch(topic, responses, perm) ==
    get_quiz_from_topic(topic, api_key, TopicContext(topic), EXCLUDED_TERMS,
                        DEFAULT_MAX_RETRIES, responses, perm)

\* the responses and shuffles a handler's call can meet
SessionResponseSeqs ==
    IF api_key = KeyValid THEN [1..DEFAULT_MAX_RETRIES -> SessionResponses]
    ELSE [1..DEFAULT_MAX_RETRIES -> {ApiError}]

\* line 311: quiz_in_progress
QuizInProgress(S) == S.questions # <<>> /\ ~ S.quiz_complete

(* "Start Quiz" (lines 321-323): start_quiz, then the rerun. An exception  *)
(* ends the script run: there is no rerun.                                 *)
ClickStartQuiz ==
    /\ ~ QuizInProgress(Session)
    /\ op.starts < MaxStarts
    /\ \E topic \in SessionTopics, responses \in SessionResponseSeqs,
          perm \in SessionShuffles :
         LET r == SessionFetch(topic, responses, perm)
             S1 == start_quiz_topic(Session, r)
         IN  /\ ApplySession(IF r.outcome = "raised" THEN S1 ELSE RunUpdateScore(S1))
             /\ ApplyCall(topic, r)
             /\ op' = [name |-> "start_quiz", fetch |-> r.outcome, mode |-> "topic",
                       starts |-> op.starts + 1, detours |-> op.detours]
    /\ UNCHANGED <<call, api_key, pdfVars>>

\* "Load 10 Random Questions" (lines 326-328)
ClickLoadRandom ==
    /\ ~ QuizInProgress(Session)
    /\ op.starts < MaxStarts
    /\ \E size \in 0..MaxBatch :
         ApplySession(RunUpdateScore(start_quiz_random(Session, RandomBatch(size))))
    /\ op' = [name |-> "load_random", fetch |-> "not_needed", mode |-> "random",
              starts |-> op.starts + 1, detours |-> op.detours]
    /\ UNCHANGED <<stems, accepted, call, api_key, pdfVars>>

\* "Submit" (lines 144-147) on the question displayed, then the rerun
ClickSubmit ==
    /\ QuizInProgress(Session)
    /\ current_question < Len(questions)
    /\ current_question \notin DOMAIN answers
    /\ op.detours < MaxDetours
    /\ \E pos \in SubmitChoices :
         ApplySession(RunUpdateScore(submit_answer(RunUpdateScore(Session), pos)))
    /\ op' = [op EXCEPT !.name = "submit", !.fetch = "not_needed",
                        !.detours = @ + 1]
    /\ UNCHANGED <<stems, accepted, call, api_key, pdfVars>>

(* "Next" (lines 367-374): the run's update_score, next_question, then the *)
(* rerun unless an exception ended the run.                                *)
ClickNext ==
    /\ QuizInProgress(Session)
    /\ LET S0 == RunUpdateScore(Session)
       IN  IF NeedsFetch(S0)
           THEN \E topic \in SessionTopics, responses \in SessionResponseSeqs,
                   perm \in SessionShuffles :
                  LET r == SessionFetch(topic, responses, perm)
                      S1 == next_question(S0, r)
                  IN  /\ r.outcome # "question" => op.detours < MaxDetours
                      /\ ApplySession(IF r.outcome = "raised" THEN S1
                                      ELSE RunUpdateScore(S1))
                      /\ ApplyCall(topic, r)
                      /\ op' = [op EXCEPT !.name = "next_question",
                                          !.fetch = r.outcome,
                                          !.detours = IF r.outcome = "question"
                                                      THEN @ ELSE @ + 1]
           ELSE LET index_error == S0.current_question >= Len(S0.questions)
                    S1 == next_question(S0, [outcome |-> "none"])
                IN  /\ ApplySession(IF index_error THEN S1 ELSE RunUpdateScore(S1))
                    /\ op' = [op EXCEPT !.name = "next_question",
                                        !.fetch = IF index_error THEN "index_error"
                                                  ELSE "not_needed"]
                    /\ UNCHANGED <<stems, accepted>>
    /\ UNCHANGED <<call, api_key, pdfVars>>

----------------------------------------------------------------------------
(* create_context_from_PDF.py: chunk_text, one loop iteration per step.    *)
(* ck holds the call's arguments, its locals start and chunks, the source  *)
(* range [start, end) of every chunk appended, and the position: "idle",   *)
(* "loop" (at the while test) or "done" (returned).                        *)

\* the characters of the texts: a letter and whitespace
TextChars == {"x", " "}

\* the texts extract_text_from_pdf can return ("" also when the extraction failed)
Texts == UNION {[1..n -> TextChars] : n \in 0..MaxTextLen}

\* the document of the end-to-end scenario: 2500 characters
Doc2500 == [i \in 1..2500 |-> "x"]

ChunkIdle ==
    [caller |-> "", text |-> <<>>, chunk_size |-> 0, overlap |-> 0, start |-> 0,
     chunks |-> <<>>, ranges |-> <<>>, in_map |-> FALSE, pc |-> "idle"]

\* chunks = []; start = 0
ChunkBegin(caller, text, chunk_size, overlap) ==
    [caller |-> caller, text |-> text, chunk_size |-> chunk_size, overlap |-> overlap,
     start |-> 0, chunks |-> <<>>, ranges |-> <<>>, in_map |-> FALSE, pc |-> "loop"]

\* variant: the loop ends once the rest of the text lies within the overlap
LoopStopsInOverlap(c) == c.start + c.overlap < Len(c.text)

\* while start < len(text)
LoopContinues(c) == c.start < Len(c.text)

\* variant: the window moves on by chunk_size + overlap
NextStartSkipsOverlap(c) == c.start + c.chunk_size + c.overlap

\* start += chunk_size - overlap
NextStart(c) == c.start + c.chunk_size - c.overlap

\* end = min(start + chunk_size, len(text))
ChunkEnd(c) == Min(c.start + c.chunk_size, Len(c.text))

\* text[start:end].strip()
ChunkAt(c) == Strip(Slice(c.text, c.start, ChunkEnd(c)))

\* a caller calls chunk_text(text, chunk_size, overlap)
ChunkCall ==
    /\ ck.pc \in {"idle", "done"}
    /\ \/ \E text \in Texts, chunk_size \in 1..MaxChunkSize, overlap \in 0..MaxOverlap :
             ck' = ChunkBegin("chunk_text", text, chunk_size, overlap)
       \/ ck' = ChunkBegin("chunk_text", Doc2500, CHUNK_SIZE, OVERLAP)
    /\ UNCHANGED <<genVars, api_key, sessionVars, rt, chatVars>>

(* load_topic_contexts, for one topic whose PDF exists: a text that is not *)
(* empty is chunked with the default sizes, an empty one gets no entry.    *)
LoadTopicContext ==
    /\ ck.pc \in {"idle", "done"}
    /\ \E text \in Texts :
         ck' = IF text # <<>>
               THEN ChunkBegin("load_topic_contexts", text, CHUNK_SIZE, OVERLAP)
               ELSE [ChunkIdle EXCEPT !.caller = "load_topic_contexts", !.pc = "done"]
    /\ UNCHANGED <<genVars, api_key, sessionVars, rt, chatVars>>

\* lines 28-30: the locals after one iteration of the loop
ChunkIteration(c) ==
    [c EXCEPT !.chunks = Append(@, ChunkAt(c)),
              !.ranges = Append(@, <<c.start, ChunkEnd(c)>>),
              !.start = NextStart(c)]

\* lines 28-30: one iteration of the loop
ChunkStep ==
    /\ ck.pc = "loop"
    /\ LoopContinues(ck)
    /\ Len(ck.chunks) < MaxIterations
    /\ ck' = ChunkIteration(ck)
    /\ UNCHANGED <<genVars, api_key, sessionVars, rt, chatVars>>

\* line 31: return chunks (line 43: context_map[topic] = the chunks)
ChunkReturn ==
    /\ ck.pc = "loop"
    /\ ~ LoopContinues(ck)
    /\ ck' = [ck EXCEPT !.pc = "done", !.in_map = (ck.caller = "load_topic_contexts")]
    /\ UNCHANGED <<genVars, api_key, sessionVars, rt, chatVars>>

----------------------------------------------------------------------------
(* chat_with_PDF.py: _retrieve_top_chunks. An embedding is a vector of     *)
(* five integers; embs is the list of the chunks' vectors or NoEmbs.       *)

\* the zero vector
VZero == <<0, 0, 0, 0, 0>>
\* two unit vectors
VUnit1 == <<1, 0, 0, 0, 0>>
VUnit2 == <<0, 1, 0, 0, 0>>
\* norm 10, cosine 0.90 with VUnit1 and 0.30 with VUnit2
V90 == <<9, 3, 3, 1, 0>>
\* norm 20, cosine 0.95 with VUnit1 and 0.25 with VUnit2
V95 == <<19, 5, 3, 2, 1>>
\* norm 5, cosine 0.20 with VUnit1 and 0.80 with VUnit2
V20 == <<1, 4, 2, 2, 0>>

\* the vectors the embedding service returns for chunks
Vectors == {VZero, V90, V95, V20}

\* the vectors the embedding service returns for questions
QueryVectors == {VZero, VUnit1, VUnit2}

\* "embs": None (np.vstack(embs) if embs else None: never an empty list of vectors)
NoEmbs == <<>>

\* np.dot(a, b)
Dot(a, b) == a[1] * b[1] + a[2] * b[2] + a[3] * b[3] + a[4] * b[4] + a[5] * b[5]

\* np.linalg.norm(a): the vectors above have whole norms
Norm(a) == CHOOSE n \in 0..20 : n * n = Dot(a, a)

(* _cosine_sim, in hundredths: 0 when a norm is 0. For a question vector   *)
(* and a chunk vector of the sets above the division is exact.             *)
cosine_sim(a, b) ==
    IF Norm(a) * Norm(b) = 0 THEN 0
    ELSE (100 * Dot(a, b)) \div (Norm(a) * Norm(b))

\* variant: chunks of equal similarity come out in reverse chunk order
SortedPositionTiesReversed(sims, i) ==
    Cardinality({j \in 1..Len(sims) : sims[j] > sims[i] \/ (sims[j] = sims[i] /\ j > i)})

(* sims.sort(reverse=True, key=lambda x: x[0]): the position (from 0) of   *)
(* chunk i after the stable sort by descending similarity                  *)
SortedPosition(sims, i) ==
    Cardinality({j \in 1..Len(sims) : sims[j] > sims[i] \/ (sims[j] = sims[i] /\ j < i)})

\* top_idxs = [idx for _, idx in sims[:k]]: chunk indexes, from 0
TopIndexes(sims, k) ==
    LET sorted == [r \in 1..Len(sims) |->
                      (CHOOSE i \in 1..Len(sims) : SortedPosition(sims, i) = r - 1) - 1]
    IN  Slice(sorted, 0, k)

\* [chunks[i] for i in top_idxs]
TopBySimilarity(chunks, sims, k) ==
    LET top_idxs == TopIndexes(sims, k)
    IN  [r \in 1..Len(top_idxs) |-> chunks[top_idxs[r] + 1]]

\* variant: the fallback returns the last k chunks
LastK(chunks, k) == Slice(chunks, Len(chunks) - Min(k, Len(chunks)), Len(chunks))

\* chunks[:k]
FirstK(chunks, k) == Slice(chunks, 0, k)

(* _retrieve_top_chunks(index, question, k); key is OPENAI_API_KEY and     *)
(* q_vec the vector the embedding service returns for the question. The    *)
(* result names the outcome, the chunks and the requests to the service.   *)
retrieve_top_chunks(index, question, k, key, q_vec) ==
    LET chunks == index.chunks
        embs == index.embs
    IN  IF embs = NoEmbs
        THEN [outcome |-> "returned", chunks |-> FirstK(chunks, k),
              top_idxs |-> <<>>, embed_calls |-> 0]
        ELSE IF ClientConstructorRaises(key)
        THEN [outcome |-> "raised", chunks |-> <<>>, top_idxs |-> <<>>, embed_calls |-> 0]
        ELSE LET sims == [i \in 1..Len(chunks) |-> cosine_sim(q_vec, embs[i])]
             IN  [outcome |-> "returned", chunks |-> TopBySimilarity(chunks, sims, k),
                  top_idxs |-> TopIndexes(sims, k), embed_calls |-> 1]

\* the chunk texts of an index
IndexChunkTexts == {<<"x">>, <<"y">>}

\* the indexes _build_index_for_pdf can have stored: chunks with or without vectors
Indexes ==
    UNION {{[chunks |-> c, embs |-> e] :
               c \in [1..n -> IndexChunkTexts],
               e \in {NoEmbs} \cup (IF n = 0 THEN {} ELSE [1..n -> Vectors])} :
           n \in 0..MaxIndexChunks}

\* the user's questions (render_pdf_chat asks only with a question that is not empty)
Queries == {<<"x">>, <<"y", "x">>}

RetrieveIdle ==
    [index |-> [chunks |-> <<>>, embs |-> NoEmbs], question |-> <<>>, k |-> 0,
     api_key |-> "", q_vec |-> VZero, outcome |-> "idle", chunks |-> <<>>,
     top_idxs |-> <<>>, embed_calls |-> 0]

\* a caller calls _retrieve_top_chunks (render_pdf_chat passes k=4)
RetrieveCall ==
    /\ rt.outcome = "idle"
    /\ \E index \in Indexes, question \in Queries, k \in 0..DEFAULT_K,
          key \in {KeyValid, KeyNone}, q_vec \in QueryVectors :
         LET r == retrieve_top_chunks(index, question, k, key, q_vec)
         IN  rt' = [index |-> index, question |-> question, k |-> k, api_key |-> key,
                    q_vec |-> IF r.embed_calls = 0 THEN VZero ELSE q_vec,
                    outcome |-> r.outcome, chunks |-> r.chunks,
                    top_idxs |-> r.top_idxs, embed_calls |-> r.embed_calls]
    /\ UNCHANGED <<genVars, api_key, sessionVars, ck, chatVars>>

\* the caller has taken the chunks
RetrieveReturn ==
    /\ rt.outcome # "idle"
    /\ rt' = RetrieveIdle
    /\ UNCHANGED <<genVars, api_key, sessionVars, ck, chatVars>>

----------------------------------------------------------------------------
(* chat_with_PDF.py: _build_index_for_pdf and the cache of indexes in the  *)
(* session state. A call is one step; bd keeps what the call saw and did.  *)

RECURSIVE ChunkLoop(_)
\* lines 27-30 of chunk_text, run to the end (for chunk_size > overlap)
ChunkLoop(c) == IF LoopContinues(c) THEN ChunkLoop(ChunkIteration(c)) ELSE c

\* chunk_text(text, chunk_size, overlap), the list it returns
chunk_text(text, chunk_size, overlap) ==
    ChunkLoop(ChunkBegin("_build_index_for_pdf", text, chunk_size, overlap)).chunks

\* the PDF files of the folder, and a name that is no file of it
Filenames == {"a.pdf", "b.pdf"}
NoFile == "none.pdf"

\* a document of two chunks at the default sizes: 801 characters
Doc801 == [i \in 1..801 |-> "x"]

\* the texts extract_text_from_pdf returns: blank, one chunk, two chunks
DocTexts == {<<" ">>, <<"x">>, Doc801}

\* the result None, and the "mtime" of a build that found no file
NoIndex == [chunks |-> <<>>, embs |-> NoEmbs]
NoMtime == 0

(* what the embedding service does with a request: it fails (no vector),   *)
(* or returns this vector for each chunk                                   *)
EmbedFails == <<>>
EmbedResponses == {EmbedFails, V90}

\* the keys of the cache with this filename
KeysOf(cache, filename) == {key \in DOMAIN cache : key[1] = filename}

\* variant: the entries of a changed file are kept
EvictNothing(cache, key) == cache

\* lines 60-62: drop the other entries of the same filename
Evict(cache, key) ==
    [k \in {c \in DOMAIN cache : c[1] # key[1] \/ c = key} |-> cache[k]]

\* st.session_state.pdf_chat_indexes[key] = idx
Store(cache, key, idx) ==
    [k \in DOMAIN cache \cup {key} |-> IF k = key THEN idx ELSE cache[k]]

\* variant: the lookup never finds the key
NeverCached(cache, key) == FALSE

\* key in st.session_state.pdf_chat_indexes
IsCached(cache, key) == key \in DOMAIN cache

\* (OpenAI is None) or (not api_key)
EmbeddingsOff(sdk, key) == (~ sdk) \/ key = KeyNone

\* range(0, len(chunks), batch_size): the number of requests
BatchCount(n) == (n + BATCH_SIZE - 1) \div BATCH_SIZE

(* _build_index_for_pdf(filename) with the default sizes. file is the      *)
(* file's state, sdk whether the OpenAI SDK was imported, key              *)
(* OPENAI_API_KEY, resp what the embedding service does. The result names  *)
(* the outcome, the index, the cache after the call, the mtime read and    *)
(* the text extractions and embedding requests made.                       *)
build_index_for_pdf(cache, filename, file, sdk, key, resp) ==
    LET k == <<filename, file.mtime>>
        evicted == Evict(cache, k)
        chunks == chunk_text(file.text, CHUNK_SIZE, OVERLAP)
        noembs == [chunks |-> chunks, embs |-> NoEmbs]
        idx == [chunks |-> chunks, embs |-> [i \in 1..Len(chunks) |-> resp]]
    IN  IF ~ file.exists
        THEN [outcome |-> "none", idx |-> NoIndex, cache |-> cache, mtime |-> NoMtime,
              hit |-> FALSE, extractions |-> 0, embed_calls |-> 0]
        ELSE IF IsCached(cache, k)
        THEN [outcome |-> "returned", idx |-> cache[k], cache |-> cache,
              mtime |-> file.mtime, hit |-> TRUE, extractions |-> 0, embed_calls |-> 0]
        ELSE IF Strip(file.text) = <<>>
        THEN [outcome |-> "none", idx |-> NoIndex, cache |-> evicted,
              mtime |-> file.mtime, hit |-> FALSE, extractions |-> 1, embed_calls |-> 0]
        ELSE IF EmbeddingsOff(sdk, key)
        THEN [outcome |-> "returned", idx |-> noembs,
              cache |-> Store(evicted, k, noembs),
              mtime |-> file.mtime, hit |-> FALSE, extractions |-> 1, embed_calls |-> 0]
        ELSE IF resp = EmbedFails
        THEN [outcome |-> "raised", idx |-> NoIndex, cache |-> evicted,
              mtime |-> file.mtime, hit |-> FALSE, extractions |-> 1, embed_calls |-> 1]
        ELSE [outcome |-> "returned", idx |-> idx, cache |-> Store(evicted, k, idx),
              mtime |-> file.mtime, hit |-> FALSE, extractions |-> 1,
              embed_calls |-> BatchCount(Len(chunks))]

\* a file that does not exist
Missing == [exists |-> FALSE, mtime |-> NoMtime, text |-> <<>>]

BuildIdle ==
    [filename |-> "", file |-> Missing, sdk |-> FALSE, api_key |-> "", resp |-> EmbedFails,
     outcome |-> "idle", idx |-> NoIndex, mtime |-> NoMtime, hit |-> FALSE,
     extractions |-> 0, embed_calls |-> 0, before |-> <<>>]

\* no build of any file yet
NotBuilt == [mtime |-> NoMtime, outcome |-> "idle", idx |-> NoIndex]

(* render_pdf_chat calls _build_index_for_pdf(filename). The embedding     *)
(* service is asked only with the SDK and a key, and an invalid key makes  *)
(* the request fail.                                                       *)
BuildCall ==
    /\ bd.outcome = "idle"
    /\ \E filename \in Filenames \cup {NoFile}, sdk \in BOOLEAN, key \in Keys,
          resp \in EmbedResponses :
         LET file == IF filename \in Filenames THEN files[filename] ELSE Missing
             r == build_index_for_pdf(pdf_chat_indexes, filename, file, sdk, key, resp)
             asked == r.embed_calls > 0
         IN  /\ (EmbeddingsOff(sdk, key) \/ key = KeyInvalid) => resp = EmbedFails
             /\ pdf_chat_indexes' = r.cache
             /\ bd' = [filename |-> filename, file |-> file,
                       sdk |-> IF r.extractions = 0 THEN FALSE ELSE sdk,
                       api_key |-> IF r.extractions = 0 THEN "" ELSE key,
                       resp |-> IF asked THEN resp ELSE EmbedFails,
                       outcome |-> r.outcome, idx |-> r.idx, mtime |-> r.mtime,
                       hit |-> r.hit, extractions |-> r.extractions,
                       embed_calls |-> r.embed_calls, before |-> pdf_chat_indexes]
             /\ built' = IF file.exists
                         THEN [built EXCEPT ![filename] =
                                  [mtime |-> r.mtime, outcome |-> r.outcome, idx |-> r.idx]]
                         ELSE built
    /\ UNCHANGED <<genVars, api_key, sessionVars, ck, rt, files, toolVars>>

\* the caller has taken the index
BuildReturn ==
    /\ bd.outcome # "idle"
    /\ bd' = BuildIdle
    /\ UNCHANGED <<genVars, api_key, sessionVars, ck, rt, files, pdf_chat_indexes, built, toolVars>>

\* a PDF of the folder is written: a later mtime, any text
FileWrite ==
    /\ bd.outcome = "idle"
    /\ \E filename \in Filenames, text \in DocTexts :
         /\ files[filename].mtime < MaxMtime
         /\ files' = [files EXCEPT ![filename] =
                         [exists |-> TRUE, mtime |-> files[filename].mtime + 1,
                          text |-> text]]
    /\ UNCHANGED <<genVars, api_key, sessionVars, ck, rt, pdf_chat_indexes, bd, built, toolVars>>

\* a PDF of the folder is removed
FileRemove ==
    /\ bd.outcome = "idle"
    /\ \E filename \in Filenames :
         /\ files[filename].exists
         /\ files' = [files EXCEPT ![filename].exists = FALSE]
    /\ UNCHANGED <<genVars, api_key, sessionVars, ck, rt, pdf_chat_indexes, bd, built, toolVars>>

----------------------------------------------------------------------------
(* chat_with_PDF.py: _resolve_pdf_for_topic. Topics and filenames are      *)
(* strings, written as sequences of characters.                            *)

\* the index of the last "." of s, 0 when it has none
LastDot(s) ==
    IF \E i \in 1..Len(s) : s[i] = "."
    THEN CHOOSE i \in 1..Len(s) : s[i] = "." /\ \A j \in (i + 1)..Len(s) : s[j] # "."
    ELSE 0

(* os.path.splitext(s)[0]: s up to its last ".", unless only dots come     *)
(* before that "." (the strings hold no path separator)                    *)
SplitExtStem(s) ==
    LET d == LastDot(s)
    IN  IF d > 1 /\ \E i \in 1..(d - 1) : s[i] # "." THEN SubSeq(s, 1, d - 1) ELSE s

\* s.startswith(prefix)
StartsWith(s, prefix) == Len(prefix) <= Len(s) /\ SubSeq(s, 1, Len(prefix)) = prefix

\* the characters of [a-z0-9] that occur in the strings
WordChars == {"a", "b", "c", "d", "f", "h", "p", "z", "1"}

(* re.sub(r"[_\-]+", " ", .) then re.sub(r"[^a-z0-9\s]+", " ", .): every    *)
(* run of other characters becomes one blank; split() takes runs of blanks *)
(* as one separator, so a blank per character gives the same tokens        *)
Blanked(s) == [i \in 1..Len(s) |-> IF s[i] \in WordChars THEN s[i] ELSE " "]

RECURSIVE Split(_)
\* str.split(): the words between runs of whitespace
Split(s) ==
    LET t == LStrip(s)
        n == IF \E i \in 1..Len(t) : t[i] = " "
             THEN (CHOOSE i \in 1..Len(t) : t[i] = " " /\ \A j \in 1..(i - 1) : t[j] # " ") - 1
             ELSE Len(t)
    IN  IF t = <<>> THEN <<>>
        ELSE <<SubSeq(t, 1, n)>> \o Split(SubSeq(t, n + 1, Len(t)))

\* stop = {"chapter", "chap", "ch", "pdf", "unit", "topic"}
STOP_WORDS ==
    {<<"c", "h", "a", "p", "t", "e", "r">>, <<"c", "h", "a", "p">>, <<"c", "h">>,
     <<"p", "d", "f">>, <<"u", "n", "i", "t">>, <<"t", "o", "p", "i", "c">>}

\* t not in stop
NotStopWord(t) == t \notin STOP_WORDS

\* _normalize_tokens
normalize_tokens(s) == SelectSeq(Split(Blanked(Lower(SplitExtStem(s)))), NotStopWord)

\* _score_match: the tokens of the filename that are tokens of the topic
score_match(topic, filename) ==
    LET t_tokens == normalize_tokens(topic)
        f_tokens == normalize_tokens(filename)
    IN  Cardinality({i \in 1..Len(f_tokens) : InList(f_tokens[i], t_tokens)})

\* variant: of several matches the last one in the list
LastMatch(matches) == matches[Len(matches)]

\* exact[0], prefix[0], substr[0]
FirstMatch(matches) == matches[1]

\* the result None
NoMatch == <<>>

\* t_norm = os.path.splitext(topic.lower())[0]
TNorm(topic) == SplitExtStem(Lower(topic))

\* os.path.splitext(f.lower())[0] == t_norm
IsExact(topic, f) == SplitExtStem(Lower(f)) = TNorm(topic)

\* os.path.splitext(f.lower())[0].startswith(t_norm)
IsPrefix(topic, f) == StartsWith(SplitExtStem(Lower(f)), TNorm(topic))

\* t_norm in f.lower()
IsSubstr(topic, f) == Contains(TNorm(topic), Lower(f))

\* len(pdf_files) == 1
SingleFileShortcut(pdf_files) == Len(pdf_files) = 1

(* _resolve_pdf_for_topic(topic, pdf_files): the filename, or NoMatch;     *)
(* pass names the line that returned                                       *)
resolve_pdf_for_topic(topic, pdf_files) ==
    LET IsExactF(f) == IsExact(topic, f)
        IsPrefixF(f) == IsPrefix(topic, f)
        IsSubstrF(f) == IsSubstr(topic, f)
        exact == SelectSeq(pdf_files, IsExactF)
        prefix == SelectSeq(pdf_files, IsPrefixF)
        substr == SelectSeq(pdf_files, IsSubstrF)
        scores == [i \in 1..Len(pdf_files) |-> score_match(topic, pdf_files[i])]
        best == pdf_files[CHOOSE i \in 1..Len(pdf_files) : SortedPosition(scores, i) = 0]
    IN  IF pdf_files = <<>> THEN [file |-> NoMatch, pass |-> "empty"]
        ELSE IF SingleFileShortcut(pdf_files) THEN [file |-> pdf_files[1], pass |-> "single"]
        ELSE IF exact # <<>> THEN [file |-> FirstMatch(exact), pass |-> "exact"]
        ELSE IF prefix # <<>> THEN [file |-> FirstMatch(prefix), pass |-> "prefix"]
        ELSE IF substr # <<>> THEN [file |-> FirstMatch(substr), pass |-> "substr"]
        ELSE IF score_match(topic, best) > 0 THEN [file |-> best, pass |-> "tokens"]
        ELSE [file |-> NoMatch, pass |-> "none"]

\* the topic labels: "a", "A b", "a.b", "ch a", "b1", "z"
ResolveTopics ==
    {<<"a">>, <<"A", " ", "b">>, <<"a", ".", "b">>, <<"c", "h", " ", "a">>,
     <<"b", "1">>, <<"z">>}

\* the PDF names: "a.pdf", "A.PDF", "ab.pdf", "ba.pdf", "a.b.pdf", "b_a.pdf", "ch-b.pdf"
ResolveFiles ==
    {<<"a", ".", "p", "d", "f">>, <<"A", ".", "P", "D", "F">>,
     <<"a", "b", ".", "p", "d", "f">>, <<"b", "a", ".", "p", "d", "f">>,
     <<"a", ".", "b", ".", "p", "d", "f">>, <<"b", "_", "a", ".", "p", "d", "f">>,
     <<"c", "h", "-", "b", ".", "p", "d", "f">>}

\* the file lists: up to MaxFiles different names in any order
FileLists ==
    UNION {{l \in [1..n -> ResolveFiles] : \A i, j \in 1..n : l[i] = l[j] => i = j} :
           n \in 0..MaxFiles}

ResolveIdle == [topic |-> <<>>, pdf_files |-> <<>>, outcome |-> "idle", file |-> NoMatch,
                pass |-> ""]

\* a caller calls _resolve_pdf_for_topic(topic, pdf_files)
ResolveCall ==
    /\ rs.outcome = "idle"
    /\ \E topic \in ResolveTopics, pdf_files \in FileLists :
         LET r == resolve_pdf_for_topic(topic, pdf_files)
         IN  rs' = [topic |-> topic, pdf_files |-> pdf_files, outcome |-> "returned",
                    file |-> r.file, pass |-> r.pass]
    /\ UNCHANGED <<genVars, api_key, sessionVars, ck, rt, indexVars, fl>>

\* the caller has taken the result
ResolveReturn ==
    /\ rs.outcome # "idle"
    /\ rs' = ResolveIdle
    /\ UNCHANGED <<genVars, api_key, sessionVars, ck, rt, indexVars, fl>>

----------------------------------------------------------------------------
(* get_quiz.py: _filter_chunks called on its own *)

\* chunk texts: "xy", "Tx", "t", "yX"
FilterChunkTexts == {ChunkClean, ChunkLeaky, <<"t">>, <<"y", "X">>}

\* the lists of up to MaxFilterChunks chunks
FilterChunkLists == UNION {[1..n -> FilterChunkTexts] : n \in 0..MaxFilterChunks}

\* exclude_terms: none, "t", "T", "X" and "t", "Xy"
FilterTermLists ==
    {<<>>, << <<"t">> >>, << <<"T">> >>, << <<"X">>, <<"t">> >>, << <<"X", "y">> >>}

FilterIdle == [chunks |-> <<>>, exclude_terms |-> <<>>, outcome |-> "idle", result |-> <<>>]

\* a caller calls _filter_chunks(chunks, exclude_terms)
FilterCall ==
    /\ fl.outcome = "idle"
    /\ \E chunks \in FilterChunkLists, exclude_terms \in FilterTermLists :
         fl' = [chunks |-> chunks, exclude_terms |-> exclude_terms, outcome |-> "returned",
                result |-> filter_chunks(chunks, exclude_terms)]
    /\ UNCHANGED <<genVars, api_key, sessionVars, ck, rt, indexVars, rs>>

\* the caller has taken the list
FilterReturn ==
    /\ fl.outcome # "idle"
    /\ fl' = FilterIdle
    /\ UNCHANGED <<genVars, api_key, sessionVars, ck, rt, indexVars, rs>>

----------------------------------------------------------------------------
(* Specifications *)

\* init_state, lines 244-252, and an empty stems memory
InitSession ==
    /\ questions = <<>>
    /\ answers = <<>>
    /\ current_question = 0
    /\ right_answers = 0
    /\ wrong_answers = 0
    /\ quiz_complete = FALSE
    /\ quiz_data = <<>>
    /\ max_questions_override = MAX_QUESTIONS
    /\ op = [name |-> "init", fetch |-> "not_needed", mode |-> "none",
             starts |-> 0, detours |-> 0]

InitMemory ==
    /\ stems = NoStems
    /\ accepted = NoStems
    /\ call = Idle(0)

\* no chunk_text and no _retrieve_top_chunks call yet
InitPdf ==
    /\ ck = ChunkIdle
    /\ rt = RetrieveIdle
    /\ files = [f \in Filenames |-> [exists |-> TRUE, mtime |-> 1, text |-> <<"x">>]]
    /\ pdf_chat_indexes = <<>>
    /\ bd = BuildIdle
    /\ built = [f \in Filenames |-> NotBuilt]
    /\ rs = ResolveIdle
    /\ fl = FilterIdle

\* the application: the user clicks through quiz sessions
Init == InitMemory /\ InitSession /\ InitPdf /\ api_key \in Keys

Next == ClickStartQuiz \/ ClickLoadRandom \/ ClickSubmit \/ ClickNext

Spec == Init /\ [][Next]_vars

(* a click on "Next" after which the session has moved on: next_question   *)
(* ended the session (lines 180-182), went on to a question it already had *)
(* (line 184), or fetched the next one (lines 194-198)                     *)
NextSucceeds == ClickNext /\ op'.fetch \in {"question", "not_needed"}

(* Weak fairness of NextSucceeds with its enabling condition written out:  *)
(* lines 370-374 render "Next" in every script run of a quiz in progress,  *)
(* and NextCanSucceed says that a click can succeed in every such state.   *)
KeepsClickingNext ==
    <>[]QuizInProgress(Session) => []<><<NextSucceeds>>_vars

(* The application with a user who keeps clicking "Next" while the quiz is *)
(* in progress and a generator whose failures are followed by a success.   *)
SpecLive == Init /\ [][Next]_vars /\ KeepsClickingNext

(* main.py lines 31-32 read OPENAI_API_KEY anew on every script run: here  *)
(* the environment of the next run holds another value than the last one   *)
EnvChange ==
    /\ \E key \in Keys : key # api_key /\ api_key' = key
    /\ UNCHANGED <<genVars, sessionVars, pdfVars>>

\* the application when the key can differ from one script run to the next
NextEnv == Next \/ EnvChange

SpecEnv == Init /\ [][NextEnv]_vars

\* the generator alone, called with inputs of every kind
InitGen == InitMemory /\ InitSession /\ InitPdf /\ api_key = KeyValid

NextGen == GenCall \/ GenReturn

SpecGen == InitGen /\ [][NextGen]_vars

\* the stems memory under many accepted generations
NextStems == StemsCall

SpecStems == InitGen /\ [][NextStems]_vars

\* the chunker alone, called with texts and sizes of every kind
NextChunk == ChunkCall \/ LoadTopicContext \/ ChunkStep \/ ChunkReturn

SpecChunk == InitGen /\ [][NextChunk]_vars

\* the retriever alone, called with indexes of every kind
NextRetrieve == RetrieveCall \/ RetrieveReturn

SpecRetrieve == InitGen /\ [][NextRetrieve]_vars

\* the index cache under builds and changes of the files
NextIndex == BuildCall \/ BuildReturn \/ FileWrite \/ FileRemove

SpecIndex == InitGen /\ [][NextIndex]_vars

\* the resolver alone, called with topics and file lists of every kind
NextResolve == ResolveCall \/ ResolveReturn

SpecResolve == InitGen /\ [][NextResolve]_vars

\* the chunk filter alone
NextFilter == FilterCall \/ FilterReturn

SpecFilter == InitGen /\ [][NextFilter]_vars

----------------------------------------------------------------------------
(* Properties. Those about get_quiz_from_topic read the variable call, the *)
(* record of the last call; those about the session read op, the record of *)
(* the last click.                                                         *)

\* a call has returned (or raised) and its record is still there
Returned == call.outcome # "idle"

\* the excluded term t, as the caller passed it, occurs in text, whatever the case
Mentions(text, t) == Contains(Lower(t), Lower(text))

\* the excluded term t occurs in text once its surrounding whitespace is dropped
MentionsStripped(text, t) == Contains(Lower(Strip(t)), Lower(text))

\* some term of the list occurs in text
MentionsAny(text, terms) == \E i \in 1..Len(terms) : MentionsStripped(text, terms[i])

\* the model's response is a question the loop has to accept
Acceptable(resp, terms) ==
    /\ resp.kind = "quiz"
    /\ ~ MentionsAny(Haystack(resp.quiz), terms)
    /\ InList(resp.quiz.answer, resp.quiz.options)

\* the attempt that met this response ended in an exception
RaisedInAttempt(resp, terms) ==
    \/ resp.kind \in {"api_error", "parse_error"}
    \/ /\ resp.kind = "quiz"
       /\ ~ MentionsAny(Haystack(resp.quiz), terms)
       /\ ~ InList(resp.quiz.answer, resp.quiz.options)

\* every chunk of the call mentions an excluded term (or there is no chunk)
NoUsableChunk ==
    \A i \in 1..Len(call.context_chunks) :
        MentionsAny(call.context_chunks[i], call.exclude_terms)

\* the last click was Next and its fetch of the next question returned None
NextFetchFailed(o) == o.name = "next_question" /\ o.fetch = "none"

(* C1: when next_question's fetch of the next question returns no          *)
(* question, current_question after the call is what it was before.        *)
C1_IndexKeptOnFailedFetch ==
    [][NextFetchFailed(op') => current_question' = current_question]_vars

\* C1 witness: a Next click of a topic-mode quiz whose fetch returned None
C1_Witness ==
    /\ NextFetchFailed(op)
    /\ op.mode = "topic"
    /\ questions # <<>>

(* C2 (as claimed): when next_question's fetch fails, answers, quiz_data,  *)
(* questions, right_answers, wrong_answers, current_question and           *)
(* quiz_complete all keep the values they had before the call.             *)
C2_FailedFetchChangesNothing ==
    [][NextFetchFailed(op') =>
          /\ answers' = answers
          /\ quiz_data' = quiz_data
          /\ questions' = questions
          /\ right_answers' = right_answers
          /\ wrong_answers' = wrong_answers
          /\ current_question' = current_question
          /\ quiz_complete' = quiz_complete]_vars

(* C3 (as claimed): every question get_quiz_from_topic returns has exactly *)
(* 4 options and its answer equals exactly one of them.                    *)
C3_FourOptionsOneAnswer ==
    call.outcome = "question" =>
        /\ Len(call.quiz.options) = 4
        /\ CountOf(call.quiz.answer, call.quiz.options) = 1

(* C4 (as claimed): the combined text (question, options, explanation) of  *)
(* a returned question contains none of the caller's excluded terms.       *)
C4_CombinedTextClean ==
    call.outcome = "question" =>
        \A i \in 1..Len(call.exclude_terms) :
            ~ Mentions(Haystack(call.quiz), call.exclude_terms[i])

(* C4 (amended): no excluded term occurs in the question text, in any one  *)
(* option or in the explanation of a returned question, nor in the         *)
(* combined text of the accepted response with the options in the model's  *)
(* order; a response whose combined text has one is never the one returned *)
(* and uses up one of the max_retries attempts.                            *)
C4_FieldsClean ==
    Returned =>
        /\ call.outcome = "question" =>
             \A i \in 1..Len(call.exclude_terms) :
                LET t == call.exclude_terms[i]
                    response == call.responses[call.invocations].quiz
                IN  /\ ~ Mentions(call.quiz.question, t)
                    /\ \A k \in 1..Len(call.quiz.options) :
                          ~ Mentions(call.quiz.options[k], t)
                    /\ ~ Mentions(call.quiz.explanation, t)
                    /\ ~ Mentions(Haystack(response), t)
        /\ \A k \in 1..Len(call.responses) :
             (call.responses[k].kind = "quiz"
              /\ \E i \in 1..Len(call.exclude_terms) :
                    Mentions(Haystack(call.responses[k].quiz), call.exclude_terms[i]))
             => /\ ~ (call.outcome = "question" /\ k = call.invocations)
                /\ k <= call.invocations
                /\ call.invocations <= call.max_retries

\* C4 witness: a response naming the excluded term in upper case was discarded
C4_Witness ==
    /\ call.outcome = "question"
    /\ call.exclude_terms = << <<" ", "T", " ">> >>
    /\ call.invocations = 2
    /\ call.responses[1] = Leaky

(* C5: when no chunk is usable, get_quiz_from_topic returns None without   *)
(* any request to the model and the stems memory is what it was.           *)
C5_NoUsableChunkAborts ==
    (Returned /\ NoUsableChunk) =>
        /\ call.outcome = "none"
        /\ call.invocations = 0
        /\ stems = call.stems_before

\* C5 witness: the only chunk is excluded, after an earlier accepted generation
C5_Witness ==
    /\ Returned
    /\ call.context_chunks = <<ChunkLeaky>>
    /\ call.exclude_terms # <<>>
    /\ NoUsableChunk
    /\ call.stems_before[call.topic] # <<>>
    /\ call.outcome = "none"

(* C6: a call makes at most max_retries requests; it stops at the first    *)
(* acceptable response, and returns None after exactly max_retries         *)
(* requests when none was acceptable.                                      *)
C6_BoundedAttempts ==
    Returned =>
        /\ call.invocations <= call.max_retries
        /\ Len(call.responses) = call.invocations
        /\ \A k \in 1..(call.invocations - 1) :
              ~ Acceptable(call.responses[k], call.exclude_terms)
        /\ call.outcome = "question" =>
              /\ call.invocations >= 1
              /\ Acceptable(call.responses[call.invocations], call.exclude_terms)
        /\ (call.outcome = "none" /\ ~ NoUsableChunk) =>
              /\ call.invocations = call.max_retries
              /\ \A k \in 1..call.invocations :
                    ~ Acceptable(call.responses[k], call.exclude_terms)

\* C6 witness: both attempts used up by a malformed and a non-compliant response
C6_Witness ==
    /\ call.outcome = "none"
    /\ call.max_retries = 2
    /\ call.invocations = 2
    /\ call.responses = <<ParseError, WrongAnswer>>

(* C7: when get_quiz_from_topic returns None, the stems of the topic are   *)
(* those before the call; the memory changes only when a question is       *)
(* returned.                                                               *)
C7_FailureKeepsStems ==
    Returned =>
        /\ call.outcome = "none" => stems[call.topic] = call.stems_before[call.topic]
        /\ stems # call.stems_before => call.outcome = "question"

\* C7 witness: attempts exhausted by parsed but rejected responses, memory not empty
C7_Witness ==
    /\ call.outcome = "none"
    /\ call.invocations = 2
    /\ call.responses[1] = Leaky
    /\ call.responses[2] = WrongAnswer
    /\ call.stems_before[call.topic] # <<>>

\* the last n entries of list
LastN(list, n) ==
    IF Len(list) <= n THEN list ELSE SubSeq(list, Len(list) - n + 1, Len(list))

\* the stems of the accepted question texts
StemsOf(list) == [i \in 1..Len(list) |-> Strip(list[i])]

(* C8: the stems memory of each topic holds at most 15 entries, the        *)
(* (stripped) texts of the most recently accepted questions of the topic   *)
(* in acceptance order; from the 16th accepted generation on the oldest    *)
(* is gone.                                                                *)
C8_StemsAreLast15 ==
    \A t \in Topics :
        /\ Len(stems[t]) <= 15
        /\ stems[t] = LastN(StemsOf(accepted[t]), 15)
        /\ Len(accepted[t]) >= 16 =>
              /\ Len(stems[t]) = 15
              /\ stems[t][1] = Strip(accepted[t][Len(accepted[t]) - 14])

\* C8 witness: the text accepted first is no longer among the stems after 16
C8_Witness ==
    /\ Len(accepted["A"]) = 16
    /\ accepted["A"][1] = QText2
    /\ ~ InList(Strip(QText2), stems["A"])
    /\ Len(stems["A"]) = 15

(* C9: an exception inside an attempt does not leave get_quiz_from_topic:  *)
(* the attempt counts as failed, the next attempt is made if one is left,  *)
(* and otherwise the call returns None.                                    *)
C9_ExceptionsAreFailedAttempts ==
    Returned =>
        \A k \in 1..Len(call.responses) :
            RaisedInAttempt(call.responses[k], call.exclude_terms) =>
                /\ call.outcome # "raised"
                /\ k < call.max_retries => call.invocations > k
                /\ k = call.max_retries => call.outcome = "none"

\* C9 witness: the request of the first attempt raised, the second was accepted
C9_Witness ==
    /\ call.outcome = "question"
    /\ call.invocations = 2
    /\ call.responses[1] = ApiError

(* C10 (as claimed): with the credential missing, get_quiz_from_topic      *)
(* makes no request and returns None; no exception reaches the caller.     *)
C10_MissingKeyReturnsNone ==
    (Returned /\ call.api_key = KeyNone) =>
        /\ call.outcome = "none"
        /\ call.invocations = 0

----------------------------------------------------------------------------
(* Properties of the session engine (main.py) *)

\* the last click was a start of a quiz, in topic mode or in random mode
Started(o) == o.name \in {"start_quiz", "load_random"}

\* the last click was Next and next_question ran to its end or to its return
NextRan(o) == o.name = "next_question" /\ o.fetch \in {"question", "none", "not_needed"}

\* the number of questions with a recorded answer (a choice or a skip)
RecordedCount(ans) == Cardinality(DOMAIN ans)

(* C11 (as claimed): quiz_complete becomes true only in a next_question    *)
(* call, and a next_question call leaves it true exactly when the number   *)
(* of questions with a recorded answer equals the limit in force; no start,*)
(* submit, score recount or failed fetch sets it.                          *)
C11_CompleteExactlyAtLimit ==
    [][/\ (quiz_complete' /\ ~ quiz_complete) =>
             /\ op'.name = "next_question"
             /\ op'.fetch = "not_needed"
       /\ NextRan(op') =>
             (quiz_complete' <=>
                 RecordedCount(answers') = max_questions_override')]_vars

(* C12: after start_quiz, in topic mode and in random mode and whatever    *)
(* the session was before, there is no recorded answer, both counters are  *)
(* 0, current_question is 0, quiz_data is empty and quiz_complete is false.*)
C12_StartResets ==
    Started(op) =>
        /\ DOMAIN answers = {}
        /\ right_answers = 0
        /\ wrong_answers = 0
        /\ current_question = 0
        /\ quiz_data = <<>>
        /\ quiz_complete = FALSE

\* C12 witness: a topic-mode start that follows a completed ten-question quiz
C12_Witness ==
    /\ op.name = "start_quiz"
    /\ op.starts = 2
    /\ op.fetch = "question"
    /\ Len(accepted["A"]) = MAX_QUESTIONS + 1
    /\ Len(questions) = 1

(* C13 (as claimed): a next_question call on a question without a recorded *)
(* answer marks it skipped, counts it once in wrong_answers (the recount   *)
(* of the rerun included) and appends a record with is_correct = false.    *)
C13_SkipIsIncorrect ==
    [][(NextRan(op') /\ current_question \notin DOMAIN answers) =>
          /\ answers'[current_question] = -1
          /\ wrong_answers' = wrong_answers + 1
          /\ right_answers' = right_answers
          /\ quiz_data'[Len(quiz_data')].user_answer = Skipped
          /\ quiz_data'[Len(quiz_data')].is_correct = FALSE]_vars

(* C14: an answer recorded for a question index, a choice or a skip, is    *)
(* the same after every later Submit and Next click of the session, also   *)
(* when the fetch of a Next click fails and the click is repeated; only a  *)
(* start of a quiz removes it.                                             *)
C14_AnswersImmutable ==
    [][\A i \in DOMAIN answers :
          \/ i \in DOMAIN answers' /\ answers'[i] = answers[i]
          \/ Started(op') /\ op'.starts = op.starts + 1 /\ DOMAIN answers' = {}]_vars

\* C14 witness: the Next click on a skipped question failed and was repeated
C14_Witness ==
    /\ NextFetchFailed(op)
    /\ op.detours = 2
    /\ current_question \in DOMAIN answers
    /\ answers[current_question] = -1
    /\ Len(quiz_data) = 2
    /\ quiz_data[1] = quiz_data[2]

\* the recorded answers whose chosen option is the question's answer
RightSet ==
    {i \in DOMAIN answers :
        /\ answers[i] # -1
        /\ questions[i + 1].options[answers[i] + 1] = questions[i + 1].answer}

(* C15: right_answers is the number of recorded answers whose chosen       *)
(* option equals the question's answer, wrong_answers the number of all    *)
(* other recorded answers (wrong choices and skips), and their sum the     *)
(* number of recorded answers, during the quiz and in the summary.         *)
C15_ScoreFromHistory ==
    /\ right_answers = Cardinality(RightSet)
    /\ wrong_answers = Cardinality(DOMAIN answers \ RightSet)
    /\ right_answers + wrong_answers = RecordedCount(answers)

\* C15 witness: the summary of a quiz with one right choice and one skip
C15_Witness ==
    /\ quiz_complete
    /\ right_answers = 1
    /\ wrong_answers = 1
    /\ \E i \in DOMAIN answers : answers[i] = -1

----------------------------------------------------------------------------
(* Properties of chunk_text (create_context_from_PDF.py). They read ck     *)
(* once the call has returned.                                             *)

\* chunk_text has returned
Chunked == ck.pc = "done" /\ (ck.caller = "chunk_text" \/ ck.in_map)

\* size > overlap >= 0
ValidSizes == ck.chunk_size > ck.overlap /\ ck.overlap >= 0

\* ceil(a / b) for a >= 0, b > 0
CeilDiv(a, b) == (a + b - 1) \div b

\* the call of the end-to-end scenario: 2500 characters, size 1000, overlap 200
IsScenario == ck.text = Doc2500 /\ ck.chunk_size = 1000 /\ ck.overlap = 200

(* C16 (as claimed): for size > overlap >= 0 chunk_text yields             *)
(* ceil(max(0, len(text) - overlap) / (size - overlap)) chunks, and the    *)
(* 2500-character text with size 1000 and overlap 200 yields the 3 chunks  *)
(* of [0,1000), [800,1800), [1600,2500).                                   *)
C16_ChunkCountClaimed ==
    (Chunked /\ ValidSizes) =>
        LET rest == Len(ck.text) - ck.overlap
        IN  /\ Len(ck.chunks) =
                  CeilDiv(IF rest < 0 THEN 0 ELSE rest, ck.chunk_size - ck.overlap)
            /\ IsScenario =>
                  ck.ranges = << <<0, 1000>>, <<800, 1800>>, <<1600, 2500>> >>

(* C16 (amended): for size > overlap >= 0 chunk_text yields                *)
(* ceil(len(text) / (size - overlap)) chunks, one for every multiple of    *)
(* size - overlap below len(text); the 2500-character text with size 1000  *)
(* and overlap 200 yields 4 chunks, of [0,1000), [800,1800), [1600,2500)   *)
(* and [2400,2500).                                                        *)
C16_ChunkCount ==
    (Chunked /\ ValidSizes) =>
        /\ Len(ck.chunks) = CeilDiv(Len(ck.text), ck.chunk_size - ck.overlap)
        /\ Len(ck.ranges) = Len(ck.chunks)
        /\ IsScenario =>
              ck.ranges = << <<0, 1000>>, <<800, 1800>>, <<1600, 2500>>,
                             <<2400, 2500>> >>

\* C16 witness: the scenario's call has returned its chunks
C16_Witness ==
    /\ Chunked
    /\ IsScenario
    /\ Len(ck.chunks) = 4
    /\ Len(ck.chunks[4]) = 100

(* C17: for size > overlap >= 0 the source ranges of the chunks, in order, *)
(* cover [0, len(text)): the k-th chunk starts at (k-1) * (size - overlap),*)
(* spans at most size characters and is the trimmed text of its range, and *)
(* every position of the text lies in some range.                          *)
C17_RangesCoverText ==
    (Chunked /\ ValidSizes) =>
        /\ \A k \in 1..Len(ck.ranges) :
              /\ ck.ranges[k][1] = (k - 1) * (ck.chunk_size - ck.overlap)
              /\ ck.ranges[k][1] % (ck.chunk_size - ck.overlap) = 0
              /\ ck.ranges[k][1] < ck.ranges[k][2]
              /\ ck.ranges[k][2] - ck.ranges[k][1] <= ck.chunk_size
              /\ ck.ranges[k][2] <= Len(ck.text)
              /\ ck.chunks[k] = Strip(SubSeq(ck.text, ck.ranges[k][1] + 1, ck.ranges[k][2]))
        /\ \A pos \in 0..(Len(ck.text) - 1) :
              \E k \in 1..Len(ck.ranges) :
                  ck.ranges[k][1] <= pos /\ pos < ck.ranges[k][2]

\* C17 witness: overlapping windows, the last one cut short by the end of the text
C17_Witness ==
    /\ Chunked
    /\ ck.chunk_size = 3
    /\ ck.overlap = 1
    /\ Len(ck.text) = 4
    /\ ck.ranges = << <<0, 3>>, <<2, 4>> >>

(* C18 (as claimed): chunk_text terminates for every text and every pair   *)
(* of sizes: the loop never runs with overlap >= size (such a call is      *)
(* rejected or its overlap is brought below size), and every iteration     *)
(* moves start forward.                                                    *)
C18_LoopAdvances ==
    [][(ck.pc = "loop" /\ ck'.pc = "loop" /\ Len(ck'.chunks) > Len(ck.chunks)) =>
          /\ ck.overlap < ck.chunk_size
          /\ ck'.start > ck.start]_vars

(* C19 (as claimed): a text that is empty or only whitespace yields no     *)
(* chunk: chunk_text returns an empty list for it, and the context that    *)
(* load_topic_contexts builds for such a document holds no chunk.          *)
C19_BlankTextNoChunks ==
    (ck.pc = "done" /\ Strip(ck.text) = <<>>) => ck.chunks = <<>>

----------------------------------------------------------------------------
(* Properties of _retrieve_top_chunks (chat_with_PDF.py) *)

(* C20: when the index has no vectors, _retrieve_top_chunks returns the    *)
(* first min(k, number of chunks) chunks in their order, whatever the      *)
(* question, and makes no request to the embedding service (nor needs the  *)
(* credential).                                                            *)
C20_FallbackFirstK ==
    (rt.outcome # "idle" /\ rt.index.embs = NoEmbs) =>
        /\ rt.outcome = "returned"
        /\ rt.chunks = SubSeq(rt.index.chunks, 1, Min(rt.k, Len(rt.index.chunks)))
        /\ rt.embed_calls = 0

\* C20 witness: two of three chunks returned, the index without vectors
C20_Witness ==
    /\ rt.outcome = "returned"
    /\ rt.index.embs = NoEmbs
    /\ rt.index.chunks = << <<"x">>, <<"y">>, <<"y">> >>
    /\ rt.k = 2
    /\ rt.question = <<"y", "x">>
    /\ rt.chunks = << <<"x">>, <<"y">> >>

(* the similarities of the last call, one per chunk of its index *)
SimsOf(r) == [i \in 1..Len(r.index.chunks) |-> cosine_sim(r.q_vec, r.index.embs[i])]

\* the call of the scenario: similarities 0.90, 0.95 and 0.20, k = 2
IsTopKScenario(r) ==
    /\ r.outcome = "returned"
    /\ r.index.embs = <<V90, V95, V20>>
    /\ r.q_vec = VUnit1
    /\ r.k = 2

(* C21: with vectors in the index, _retrieve_top_chunks returns            *)
(* min(k, number of chunks) chunks of distinct indexes, by descending      *)
(* similarity to the question and, at equal similarity, in chunk order;    *)
(* no chunk left out ranks before a returned one. With similarities        *)
(* 0.90, 0.95, 0.20 and k = 2 it returns the chunks of indexes 1 and 0.    *)
C21_TopKBySimilarity ==
    (rt.outcome = "returned" /\ rt.index.embs # NoEmbs) =>
        LET sims == SimsOf(rt)
            n == Len(rt.index.chunks)
            idx == rt.top_idxs
            Before(i, j) == sims[i + 1] > sims[j + 1] \/ (sims[i + 1] = sims[j + 1] /\ i < j)
        IN  /\ Len(idx) = Min(rt.k, n)
            /\ \A r \in 1..Len(idx) : idx[r] \in 0..(n - 1)
            /\ \A r1, r2 \in 1..Len(idx) : r1 < r2 => Before(idx[r1], idx[r2])
            /\ \A j \in 0..(n - 1) :
                   (\A r \in 1..Len(idx) : idx[r] # j) =>
                       \A r \in 1..Len(idx) : Before(idx[r], j)
            /\ rt.chunks = [r \in 1..Len(idx) |-> rt.index.chunks[idx[r] + 1]]
            /\ rt.embed_calls = 1
            /\ (sims = <<90, 95, 20>> /\ rt.k = 2) => idx = <<1, 0>>

\* C21 witness: the call of the scenario returned the chunks of indexes 1 and 0
C21_Witness ==
    /\ IsTopKScenario(rt)
    /\ SimsOf(rt) = <<90, 95, 20>>
    /\ rt.top_idxs = <<1, 0>>

\* two chunks of equal similarity returned in chunk order, a better one before them
C21_WitnessTie ==
    /\ rt.outcome = "returned"
    /\ rt.index.embs = <<V20, V20, V95>>
    /\ rt.q_vec = VUnit2
    /\ rt.top_idxs = <<0, 1, 2>>

----------------------------------------------------------------------------
(* Properties of _build_index_for_pdf (chat_with_PDF.py) *)

\* this step is a call of _build_index_for_pdf that found the file
BuildFound == bd.outcome = "idle" /\ bd'.outcome # "idle" /\ bd'.file.exists

(* C22: a build of a file whose latest build saw the same mtime and        *)
(* returned an index returns that index from the cache: no text is         *)
(* extracted, no embedding is requested and the cache stays as it is.      *)
C22_SecondBuildCached ==
    [][(/\ BuildFound
        /\ built[bd'.filename].outcome = "returned"
        /\ built[bd'.filename].mtime = bd'.file.mtime) =>
          /\ bd'.outcome = "returned"
          /\ bd'.idx = built[bd'.filename].idx
          /\ bd'.extractions = 0
          /\ bd'.embed_calls = 0
          /\ pdf_chat_indexes' = pdf_chat_indexes]_vars

\* C22 witness: a second build returned the cached index, two chunks with vectors
C22_Witness ==
    /\ bd.outcome = "returned"
    /\ bd.hit
    /\ bd.idx = [chunks |-> chunk_text(Doc801, CHUNK_SIZE, OVERLAP), embs |-> <<V90, V90>>]
    /\ bd.extractions = 0
    /\ built[bd.filename].mtime = bd.file.mtime

\* at most one entry per filename, under the mtime its latest build saw
KeyedByLatestBuild(cache, latest) ==
    \A f \in Filenames :
        /\ Cardinality(KeysOf(cache, f)) <= 1
        /\ \A key \in KeysOf(cache, f) : key[2] = latest[f].mtime

(* C23: after every build the cache holds at most one entry per filename,  *)
(* under the mtime the latest build of that file saw; the build of a       *)
(* changed file drops the file's older entries, and the entries of other   *)
(* filenames stay as they are.                                             *)
C23_OneEntryPerFile ==
    [][BuildFound =>
          /\ KeyedByLatestBuild(pdf_chat_indexes', built')
          /\ \A key \in KeysOf(pdf_chat_indexes, bd'.filename) :
                 key[2] # bd'.file.mtime => key \notin DOMAIN pdf_chat_indexes'
          /\ \A key \in DOMAIN pdf_chat_indexes :
                 key[1] # bd'.filename =>
                     /\ key \in DOMAIN pdf_chat_indexes'
                     /\ pdf_chat_indexes'[key] = pdf_chat_indexes[key]]_vars

\* C23 witness: the build of a changed file replaced its entry, the other file's stayed
C23_Witness ==
    /\ bd.filename = "a.pdf"
    /\ bd.outcome = "returned"
    /\ DOMAIN bd.before = {<<"a.pdf", 1>>, <<"b.pdf", 1>>}
    /\ DOMAIN pdf_chat_indexes = {<<"a.pdf", 2>>, <<"b.pdf", 1>>}
    /\ pdf_chat_indexes[<<"b.pdf", 1>>] = bd.before[<<"b.pdf", 1>>]

\* the last build had a text to index and no embeddings to be had
EmbeddingsUnavailable(b) ==
    /\ b.outcome # "idle"
    /\ b.extractions = 1
    /\ Strip(b.file.text) # <<>>
    /\ \/ ~ b.sdk
       \/ b.api_key = KeyNone
       \/ b.embed_calls > 0 /\ b.resp = EmbedFails

(* C24 (as claimed): when embeddings are unavailable (no SDK, no           *)
(* credential, or the embedding request fails) the build does not fail:    *)
(* it returns an index with the chunks and no vectors, and caches it.      *)
C24_FallbackWithoutEmbeddings ==
    EmbeddingsUnavailable(bd) =>
        /\ bd.outcome = "returned"
        /\ bd.idx = [chunks |-> chunk_text(bd.file.text, CHUNK_SIZE, OVERLAP),
                     embs |-> NoEmbs]
        /\ IsCached(pdf_chat_indexes, <<bd.filename, bd.file.mtime>>)
        /\ pdf_chat_indexes[<<bd.filename, bd.file.mtime>>] = bd.idx

\* the same without the failing request: no SDK or no credential
C24_FallbackWithoutClient ==
    (EmbeddingsUnavailable(bd) /\ bd.embed_calls = 0) =>
        /\ bd.outcome = "returned"
        /\ bd.idx.embs = NoEmbs
        /\ pdf_chat_indexes[<<bd.filename, bd.file.mtime>>] = bd.idx

----------------------------------------------------------------------------
(* Properties of _resolve_pdf_for_topic (chat_with_PDF.py) *)

\* the files of the last call's list that satisfy Test
Matching(r, Test(_)) == {r.pdf_files[i] : i \in {j \in 1..Len(r.pdf_files) : Test(r.pdf_files[j])}}

(* C25 (as claimed): the passes apply in strict precedence: when a file's  *)
(* stem equals the topic (letter case aside) such a file is returned;      *)
(* otherwise, when a stem starts with the topic, such a file; otherwise,   *)
(* when a filename contains the topic, such a file; and only otherwise a   *)
(* token-overlap candidate, whatever the order of the list.                *)
C25_PassPrecedence ==
    rs.outcome = "returned" =>
        LET topic == Lower(rs.topic)
            StemEquals(f) == SplitExtStem(Lower(f)) = topic
            StemStarts(f) == StartsWith(SplitExtStem(Lower(f)), topic)
            NameContains(f) == Contains(topic, Lower(f))
        IN  IF Matching(rs, StemEquals) # {} THEN rs.file \in Matching(rs, StemEquals)
            ELSE IF Matching(rs, StemStarts) # {} THEN rs.file \in Matching(rs, StemStarts)
            ELSE IF Matching(rs, NameContains) # {} THEN rs.file \in Matching(rs, NameContains)
            ELSE TRUE

\* the same for the topics without a "."
C25_PassPrecedenceWithoutDot ==
    LastDot(rs.topic) = 0 => C25_PassPrecedence

\* no pass of the last call has a match: no exact, prefix or substring match, all scores 0
NothingMatches(r) ==
    \A i \in 1..Len(r.pdf_files) :
        /\ ~ IsExact(r.topic, r.pdf_files[i])
        /\ ~ IsPrefix(r.topic, r.pdf_files[i])
        /\ ~ IsSubstr(r.topic, r.pdf_files[i])
        /\ score_match(r.topic, r.pdf_files[i]) = 0

(* C26 (as claimed): for every file list that is not empty, a list of one  *)
(* file included, when no file matches the topic by exact stem, prefix or  *)
(* substring and every token-overlap score is 0, the result is None.       *)
C26_NoMatchIsNone ==
    (rs.outcome = "returned" /\ rs.pdf_files # <<>> /\ NothingMatches(rs)) =>
        rs.file = NoMatch

\* the same for the lists of two files or more
C26_NoMatchIsNoneSeveralFiles ==
    (rs.outcome = "returned" /\ Len(rs.pdf_files) > 1 /\ NothingMatches(rs)) =>
        rs.file = NoMatch

\* the pass in which file f matches the topic: 1 exact .. 4 tokens, 5 none
Tier(topic, f) ==
    IF IsExact(topic, f) THEN 1
    ELSE IF IsPrefix(topic, f) THEN 2
    ELSE IF IsSubstr(topic, f) THEN 3
    ELSE IF score_match(topic, f) > 0 THEN 4
    ELSE 5

\* files f and g tie: they match in the same pass, in the token pass with the same score
Ties(topic, f, g) ==
    /\ Tier(topic, f) = Tier(topic, g)
    /\ Tier(topic, f) = 4 => score_match(topic, f) = score_match(topic, g)

(* C27: the result is a function of the topic and the list, and of the     *)
(* files that tie with the returned one (same pass, or same token-overlap  *)
(* score) the returned one comes first in the list.                        *)
C27_FirstOfTies ==
    (rs.outcome = "returned" /\ rs.file # NoMatch) =>
        /\ rs.file = resolve_pdf_for_topic(rs.topic, rs.pdf_files).file
        /\ \E i \in 1..Len(rs.pdf_files) :
               /\ rs.pdf_files[i] = rs.file
               /\ \A j \in 1..(i - 1) : ~ Ties(rs.topic, rs.pdf_files[j], rs.file)

\* C27 witness: two files of token score 1, the first of the list returned
C27_Witness ==
    /\ rs.outcome = "returned"
    /\ rs.topic = <<"A", " ", "b">>
    /\ rs.pdf_files = << <<"c", "h", "-", "b", ".", "p", "d", "f">>,
                         <<"a", ".", "p", "d", "f">>,
                         <<"b", "a", ".", "p", "d", "f">> >>
    /\ rs.pass = "tokens"
    /\ rs.file = <<"c", "h", "-", "b", ".", "p", "d", "f">>

\* two files of equal stem (letter case aside), the first of the list returned
C27_WitnessExact ==
    /\ rs.outcome = "returned"
    /\ rs.topic = <<"a">>
    /\ rs.pdf_files = << <<"a", "b", ".", "p", "d", "f">>, <<"A", ".", "P", "D", "F">>,
                         <<"a", ".", "p", "d", "f">> >>
    /\ rs.file = <<"A", ".", "P", "D", "F">>

----------------------------------------------------------------------------
(* Properties of _filter_chunks (get_quiz.py) *)

\* chunk c contains one of the terms, letter case aside on both sides
HasExcludedTerm(c, terms) ==
    \E i \in 1..Len(terms) : Contains(Lower(terms[i]), Lower(c))

(* C28: _filter_chunks returns no chunk that contains an excluded term,    *)
(* letter case aside on the chunk and on the term; it returns every other  *)
(* chunk, in the order of the input; with no excluded term it returns the  *)
(* input as it is.                                                         *)
C28_FilterDropsExactlyExcluded ==
    fl.outcome = "returned" =>
        LET Keep(c) == ~ HasExcludedTerm(c, fl.exclude_terms)
        IN  /\ \A i \in 1..Len(fl.result) : Keep(fl.result[i])
            /\ fl.result = SelectSeq(fl.chunks, Keep)
            /\ fl.exclude_terms = <<>> => fl.result = fl.chunks

\* C28 witness: the term "T" removes the chunks "Tx" and "t" and keeps "yX" and "xy"
C28_Witness ==
    /\ fl.outcome = "returned"
    /\ fl.exclude_terms = << <<"T">> >>
    /\ fl.chunks = << <<"y", "X">>, ChunkLeaky, <<"t">> >>
    /\ fl.result = << <<"y", "X">> >>

----------------------------------------------------------------------------
(* Properties of the session engine: the question index and quiz_data *)

(* C29 (as claimed): whenever the question list is not empty the index of  *)
(* the current question is an index of the list, after every sequence of   *)
(* start_quiz, submit and next_question, a next_question whose generation  *)
(* returns None or raises included.                                        *)
C29_IndexInRange ==
    questions # <<>> => (0 <= current_question /\ current_question < Len(questions))

\* the same as long as no run was ended by an exception
C29_IndexInRangeWithoutException ==
    op.fetch \notin {"raised", "index_error"} => C29_IndexInRange

(* C30 (as claimed): quiz_data holds at most one record per question       *)
(* index: never more than current_question + 1 records, and at Complete    *)
(* exactly one record for each question presented, also when a fetch       *)
(* failed and next_question ran again on the same question.                *)
C30_OneRecordPerQuestion ==
    /\ Len(quiz_data) <= current_question + 1
    /\ quiz_complete => Len(quiz_data) = current_question + 1

(* C31 (as claimed): the limit of a topic-mode session does not depend on  *)
(* earlier sessions: after start_quiz in topic mode the limit that         *)
(* next_question uses is MAX_QUESTIONS, also when an earlier random-mode   *)
(* start set max_questions_override to the size of a smaller batch.        *)
C31_TopicLimitIsDefault ==
    op.mode = "topic" => max_questions_override = MAX_QUESTIONS

\* the same for the sessions with no random-mode start before them
C31_TopicLimitFirstSession ==
    (op.mode = "topic" /\ op.starts = 1) => max_questions_override = MAX_QUESTIONS

----------------------------------------------------------------------------
(* Properties of the stems memory and the shuffle (get_quiz.py) *)

\* the questions accepted for the call's topic before the call
AcceptedBefore(c) ==
    SubSeq(accepted[c.topic], 1,
           Len(accepted[c.topic]) - (IF c.outcome = "question" THEN 1 ELSE 0))

(* C32: the stems memory is per topic: a get_quiz_from_topic call for a    *)
(* topic, whether it returns a question, None or raises, leaves the stems  *)
(* of every other topic as they were, and the stems listed in its prompt   *)
(* are all texts of questions accepted before for that same topic.         *)
C32_StemsPerTopic ==
    Returned =>
        /\ \A t \in Topics \ {call.topic} : stems[t] = call.stems_before[t]
        /\ \A i \in 1..Len(call.recent_stems) :
               InList(call.recent_stems[i], StemsOf(AcceptedBefore(call)))

\* C32 witness: a call for B while A has a stem: the prompt lists none, A keeps its stem
C32_Witness ==
    /\ call.topic = "B"
    /\ call.outcome = "question"
    /\ call.invocations > 0
    /\ call.stems_before["A"] # <<>>
    /\ stems["A"] = call.stems_before["A"]
    /\ call.recent_stems = <<>>
    /\ stems["B"] # <<>>

\* a call whose prompt lists a stem accepted before for its topic
C32_WitnessListed ==
    /\ call.outcome # "idle"
    /\ call.recent_stems # <<>>
    /\ call.recent_stems = call.stems_before[call.topic]

\* the response of the call that was accepted: the last one the model gave
AcceptedResponse(c) == c.responses[c.invocations].quiz

(* C33: the shuffle preserves the question: the options returned are the   *)
(* options of the accepted response in some order, every entry as often as *)
(* there; question, answer and explanation are those of the response; the  *)
(* answer is among the returned options.                                   *)
C33_ShufflePreservesQuestion ==
    call.outcome = "question" =>
        LET resp == AcceptedResponse(call)
            all == {resp.options[i] : i \in 1..Len(resp.options)}
                   \cup {call.quiz.options[i] : i \in 1..Len(call.quiz.options)}
        IN  /\ Len(call.quiz.options) = Len(resp.options)
            /\ \A o \in all : CountOf(o, call.quiz.options) = CountOf(o, resp.options)
            /\ call.quiz.question = resp.question
            /\ call.quiz.answer = resp.answer
            /\ call.quiz.explanation = resp.explanation
            /\ InList(call.quiz.answer, call.quiz.options)

\* C33 witness: a response with an option given twice, returned in another order
C33_Witness ==
    /\ call.outcome = "question"
    /\ call.responses[call.invocations] = DupOptions
    /\ call.quiz.options = <<OptD, OptA, OptC, OptA>>

----------------------------------------------------------------------------
(* Progress of a session (main.py, next_question).                         *)

NextCanSucceed ==
    QuizInProgress(Session) =>
        LET S0 == RunUpdateScore(Session)
        IN  /\ S0.current_question < Len(S0.questions)
            /\ NeedsFetch(S0) =>
                   \E topic \in SessionTopics, responses \in SessionResponseSeqs,
                      perm \in SessionShuffles :
                      SessionFetch(topic, responses, perm).outcome = "question"

C34_WitnessAfterFailure ==
    /\ op.mode = "topic"
    /\ op.detours > 0
    /\ quiz_complete
    /\ Len(questions) = MAX_QUESTIONS

====
